---- MODULE Spec2Model ----
(***************************************************************************)
(* The x402 escrow program (contract/src/lib.rs): one listing account, the *)
(* token accounts around it, and the four instructions that act on them.   *)
(*                                                                         *)
(* Unsigned integers are little-endian byte sequences of their real width  *)
(* (u64 = 8 bytes, u128 = 16 bytes), so that the wide intermediates and    *)
(* the narrowing conversions of the program are computed exactly.          *)
(***************************************************************************)
EXTENDS Integers, Sequences, FiniteSets, TLC

(***************************************************************************)
(* Fixed-width unsigned arithmetic on little-endian byte sequences.        *)
(***************************************************************************)

\* u64::to_le_bytes for a value small enough to be written as a literal;
\* len bytes, least significant first.
RECURSIVE to_le_bytes(_, _)
to_le_bytes(n, len) ==
    IF len = 0 THEN <<>> ELSE <<n % 256>> \o to_le_bytes(n \div 256, len - 1)

U64(n) == to_le_bytes(n, 8)

\* A function over 1..n as the tuple of its values, each computed once.
Tuple(f) == f \o <<>>

Zeros(len) == Tuple([i \in 1..len |-> 0])

IsZero(a) == \A i \in 1..Len(a) : a[i] = 0

\* a < b for two byte sequences of the same length: they differ, and at
\* the most significant byte where they differ a has the smaller one.
Lt(a, b) ==
    \E i \in 1..Len(a) :
        /\ a[i] < b[i]
        /\ \A m \in (i + 1)..Len(a) : a[m] = b[m]

Le(a, b) == ~Lt(b, a)

\* Whether adding a and b carries into byte i: some lower byte overflows
\* and every byte between it and i passes the carry on.
CarryInto(a, b, i) ==
    \E j \in 1..(i - 1) :
        /\ a[j] + b[j] > 255
        /\ \A m \in (j + 1)..(i - 1) : a[m] + b[m] = 255

\* a + b modulo 256^Len(a).
wrapping_add(a, b) ==
    Tuple([i \in 1..Len(a) |->
        (a[i] + b[i] + (IF CarryInto(a, b, i) THEN 1 ELSE 0)) % 256])

\* uN::checked_add: None on a carry out of the top byte.
checked_add(a, b) ==
    IF CarryInto(a, b, Len(a) + 1)
    THEN [some |-> FALSE, val |-> Zeros(Len(a))]
    ELSE [some |-> TRUE, val |-> wrapping_add(a, b)]

\* Whether subtracting b from a borrows from byte i.
BorrowFrom(a, b, i) ==
    \E j \in 1..(i - 1) :
        /\ a[j] < b[j]
        /\ \A m \in (j + 1)..(i - 1) : a[m] = b[m]

\* a - b modulo 256^Len(a).
wrapping_sub(a, b) ==
    Tuple([i \in 1..Len(a) |->
        (a[i] - b[i] - (IF BorrowFrom(a, b, i) THEN 1 ELSE 0) + 256) % 256])

\* uN::saturating_sub.
saturating_sub(a, b) ==
    IF Lt(a, b) THEN Zeros(Len(a)) ELSE wrapping_sub(a, b)

\* uN::checked_sub, as the token program uses it.
checked_sub(a, b) ==
    IF Lt(a, b) THEN [some |-> FALSE, val |-> Zeros(Len(a))]
    ELSE [some |-> TRUE, val |-> wrapping_sub(a, b)]

\* u128::from(u64): zero extension.
u128_from(a) == a \o Zeros(16 - Len(a))

\* The sum of a[i] * b[k + 1 - i] over the i from lo up for which both
\* bytes exist: column k of the long multiplication of a and b.
RECURSIVE ColumnFrom(_, _, _, _)
ColumnFrom(a, b, k, i) ==
    IF i > Len(a) \/ i > k THEN 0
    ELSE (IF k + 1 - i <= Len(b) THEN a[i] * b[k + 1 - i] ELSE 0)
         + ColumnFrom(a, b, k, i + 1)

\* One round of carrying: every column keeps its low byte and takes the
\* rest of the column below it.
CarryRound(c) ==
    Tuple([k \in 1..Len(c) |->
        (c[k] % 256) + (IF k = 1 THEN 0 ELSE c[k - 1] \div 256)])

\* The number of bytes of a up to its most significant non-zero byte.
Significant(a) ==
    IF IsZero(a) THEN 0
    ELSE CHOOSE i \in 1..Len(a) :
            a[i] # 0 /\ \A m \in (i + 1)..Len(a) : a[m] = 0

\* The product of x and y, Len(x) + Len(y) bytes.  A column is below 2^20,
\* so three rounds of carrying leave every column at most 256, and one
\* addition settles the carries that remain.
LongMul(x, y) ==
    LET n == Len(x) + Len(y)
        columns == Tuple([k \in 1..n |-> ColumnFrom(x, y, k, 1)])
        c == CarryRound(CarryRound(CarryRound(columns)))
    IN  wrapping_add(Tuple([k \in 1..n |-> c[k] % 256]),
                     Tuple([k \in 1..n |-> IF k = 1 THEN 0 ELSE c[k - 1] \div 256]))

\* The full product of a and b, Len(a) + Len(b) bytes: the product of
\* their significant bytes, zero-extended.
widening_mul(a, b) ==
    LET x == SubSeq(a, 1, Significant(a))
        y == SubSeq(b, 1, Significant(b))
    IN  LongMul(x, y) \o Zeros(Len(a) + Len(b) - Len(x) - Len(y))

\* u128::checked_mul: None when the product does not fit 16 bytes.
checked_mul(a, b) ==
    LET p == widening_mul(a, b)
    IN  IF IsZero(SubSeq(p, 17, 32))
        THEN [some |-> TRUE, val |-> SubSeq(p, 1, 16)]
        ELSE [some |-> FALSE, val |-> Zeros(16)]

\* Truncating division of a by a small divisor d > 0, from the most
\* significant byte down with a running remainder.
RECURSIVE DivSmallFrom(_, _, _, _)
DivSmallFrom(a, d, i, r) ==
    IF i = 0 THEN <<>>
    ELSE LET cur == r * 256 + a[i]
         IN  DivSmallFrom(a, d, i - 1, cur % d) \o <<cur \div d>>

DivSmall(a, d) == DivSmallFrom(a, d, Len(a), 0)

\* u64::try_from(u128): None when any of the upper eight bytes is set.
u64_try_from(a) ==
    IF IsZero(SubSeq(a, 9, 16))
    THEN [some |-> TRUE, val |-> SubSeq(a, 1, 8)]
    ELSE [some |-> FALSE, val |-> Zeros(8)]

\* 10u128.checked_pow(e): e multiplications by ten, None as soon as one
\* leaves the 16 bytes (e >= 39).
RECURSIVE Pow10From(_, _)
Pow10From(acc, e) ==
    IF e = 0 \/ ~acc.some THEN acc
    ELSE Pow10From(checked_mul(acc.val, u128_from(U64(10))), e - 1)

checked_pow10(e) == Pow10From([some |-> TRUE, val |-> u128_from(U64(1))], e)

\* x / 10^e, truncating: e truncating divisions by ten, which is the same
\* number as one truncating division by 10^e.
RECURSIVE DivPow10(_, _)
DivPow10(x, e) ==
    IF e = 0 THEN x ELSE DivPow10(DivSmall(x, 10), e - 1)

(***************************************************************************)
(* Addresses.  A public key is a tuple of naturals; the three derivations  *)
(* the program relies on (program-derived address, associated token        *)
(* address, keccak digest) are injective constructors over their inputs:   *)
(* two derivations agree exactly when their inputs agree.                  *)
(***************************************************************************)

\* system_program::ID, the key whose 32 bytes are all zero.
SystemProgramId == <<0, 0>>

\* declare_id!: this program.
ProgramId == <<0, 1>>

Alice == <<0, 2>>
Bob == <<0, 3>>
BaseMint == <<0, 4>>
QuoteMint == <<0, 5>>

\* The wallets that can sign a transaction.
Wallets == {Alice, Bob}

\* Whether the hash of (seeds, bump) falls on the ed25519 curve, in which
\* case it is no program address.  A fixed, arbitrary function of the seeds
\* standing for the hash: bump 255 is rejected for half of the seeds.
OnCurve(seller, listing_id_bytes, bump) ==
    bump = 255 /\ (seller[2] + listing_id_bytes[1]) % 2 = 1

\* Pubkey::create_program_address(["vault", seller, listing_id, [bump]]).
create_program_address(seller, listing_id_bytes, bump) ==
    IF OnCurve(seller, listing_id_bytes, bump)
    THEN [some |-> FALSE, val |-> SystemProgramId]
    ELSE [some |-> TRUE, val |-> <<1, seller, listing_id_bytes, bump>>]

\* Pubkey::find_program_address(["vault", seller, listing_id], program_id):
\* the first bump from 255 down whose address is off the curve.
RECURSIVE FindBump(_, _, _)
FindBump(seller, listing_id_bytes, bump) ==
    IF create_program_address(seller, listing_id_bytes, bump).some
    THEN bump
    ELSE FindBump(seller, listing_id_bytes, bump - 1)

find_program_address(seller, listing_id_bytes) ==
    LET bump == FindBump(seller, listing_id_bytes, 255)
    IN  [address |-> create_program_address(seller, listing_id_bytes, bump).val,
         bump |-> bump]

\* spl_associated_token_account::get_associated_token_address(owner, mint).
get_associated_token_address(owner, mint) == <<2, owner, mint>>

\* [0u8; 32]
ZeroHash == <<"zero", "">>

\* solana_program::keccak::hash(payload.as_bytes()).to_bytes()
keccak_hash(payload) == <<"keccak", payload>>

None == [some |-> FALSE, val |-> ""]
Some(s) == [some |-> TRUE, val |-> s]

(***************************************************************************)
(* The listing record.                                                     *)
(***************************************************************************)

\* Listing::LEN
LEN == 32 + 32 + 32 + 32 + 8 + 8 + 8 + 8 + 1 + 1 + 1 + 1 + 1 + 8 + 32

\* ListingStatus discriminants.
AwaitingDeposit == 0
Active == 1
Completed == 2
Cancelled == 3

\* FeePaymentMethod discriminants.
NativeSol == 0
X402 == 1

\* The record of an account whose data bytes are all zero.
ZeroListing ==
    [seller |-> SystemProgramId, base_mint |-> SystemProgramId,
     quote_mint |-> SystemProgramId, vault_authority |-> SystemProgramId,
     price_per_token |-> U64(0), quantity |-> U64(0), filled |-> U64(0),
     listing_id |-> U64(0), flags |-> 0, vault_bump |-> 0, status |-> 0,
     base_decimals |-> 0, fee_payment_method |-> 0, fee_amount_paid |-> U64(0),
     x402_payload_hash |-> ZeroHash]

\* listing_info.data.borrow().iter().any(|b| *b != 0), negated
\* AllZero looking at the status byte only.
AllZero_status_only(l) == l.status = AwaitingDeposit

AllZero(l) == l = ZeroListing

\* allow_partial ignoring the flag.
allow_partial_always(l) == TRUE

\* Listing::allow_partial
allow_partial(l) == (l.flags % 2) = 1

\* remaining ignoring what has been filled.
remaining_of_quantity(l) == l.quantity

\* Listing::remaining
remaining(l) == saturating_sub(l.quantity, l.filled)

\* Listing::status: an unknown discriminant reads as Cancelled.
status(l) == IF l.status \in {AwaitingDeposit, Active, Completed, Cancelled}
             THEN l.status ELSE Cancelled

\* set_status writing the flags byte as well.
set_status_and_flags(l, s) == [l EXCEPT !.status = s, !.flags = s]

\* Listing::set_status
set_status(l, s) == [l EXCEPT !.status = s]

\* deserialize_listing: the error it returns, "Ok" when the record reads.
\* Borsh's try_from_slice rejects a slice it does not consume entirely.
deserialize_listing(owner, data_len) ==
    IF owner # ProgramId THEN "IncorrectProgramId"
    ELSE IF data_len < LEN THEN "AccountLengthMismatch"
    ELSE IF data_len # LEN THEN "InvalidInstructionData"
    ELSE "Ok"

\* serialize_listing: the error it returns, "Ok" when the record is written.
serialize_listing(data_len) ==
    IF data_len < LEN THEN "AccountLengthMismatch" ELSE "Ok"

(***************************************************************************)
(* The token program, as far as the escrow uses it: token accounts with an *)
(* owner, a mint and an amount, and the transfer instruction reached       *)
(* through invoke / invoke_signed.                                         *)
(***************************************************************************)

\* TokenAccount::unpack: whether the account at key k holds a token account.
IsTokenAccount(toks, k) == k \in DOMAIN toks

\* assert_token_account_owner
assert_token_account_owner(account, owner) ==
    IF account.owner # owner THEN "IncorrectAuthority" ELSE "Ok"

\* assert_token_account_mint accepting any mint.
assert_token_account_mint_any(account, mint) == "Ok"

\* assert_token_account_mint
assert_token_account_mint(account, mint) ==
    IF account.mint # mint THEN "MintMismatch" ELSE "Ok"

\* The token program's Transfer, entered through a cross-program invocation
\* in which `signers` are the keys the caller can sign for.  The runtime
\* refuses the invocation when the authority is not among them; the token
\* program then checks funds, mints and the owner of the source, returns
\* early on a transfer of an account to itself, and moves the amount.
\* A transfer of twice the amount asked for.
process_transfer_twice(toks, source, destination, authority, signers, amount) ==
    IF authority \notin signers \/ ~IsTokenAccount(toks, source)
           \/ ~IsTokenAccount(toks, destination)
        THEN [err |-> "InvalidAccountData", tokens |-> toks]
    ELSE IF toks[source].owner # authority \/ toks[source].mint # toks[destination].mint
                \/ toks[source].frozen \/ toks[destination].frozen
                \/ Lt(toks[source].amount, wrapping_add(amount, amount))
        THEN [err |-> "TokenInsufficientFunds", tokens |-> toks]
    ELSE IF source = destination
        THEN [err |-> "Ok", tokens |-> toks]
    ELSE [err |-> "Ok",
          tokens |-> [toks EXCEPT
              ![source].amount = wrapping_sub(@, wrapping_add(amount, amount)),
              ![destination].amount = wrapping_add(@, wrapping_add(amount, amount))]]

process_transfer(toks, source, destination, authority, signers, amount) ==
    IF authority \notin signers
        THEN [err |-> "PrivilegeEscalation", tokens |-> toks]
    ELSE IF ~IsTokenAccount(toks, source) \/ ~IsTokenAccount(toks, destination)
        THEN [err |-> "InvalidAccountData", tokens |-> toks]
    ELSE IF toks[source].frozen \/ toks[destination].frozen
        THEN [err |-> "TokenAccountFrozen", tokens |-> toks]
    ELSE IF Lt(toks[source].amount, amount)
        THEN [err |-> "TokenInsufficientFunds", tokens |-> toks]
    ELSE IF toks[source].mint # toks[destination].mint
        THEN [err |-> "TokenMintMismatch", tokens |-> toks]
    ELSE IF toks[source].owner # authority
        THEN [err |-> "TokenOwnerMismatch", tokens |-> toks]
    ELSE IF source = destination
        THEN [err |-> "Ok", tokens |-> toks]
    ELSE LET credit == checked_add(toks[destination].amount, amount)
         IN  IF ~credit.some
             THEN [err |-> "TokenOverflow", tokens |-> toks]
             ELSE [err |-> "Ok",
                   tokens |-> [toks EXCEPT
                       ![source].amount = checked_sub(@, amount).val,
                       ![destination].amount = credit.val]]

(***************************************************************************)
(* The accounts of the world outside the listing.                          *)
(***************************************************************************)

\* The decimals of the two mints; any other key holds no mint.
MintKeys == {BaseMint, QuoteMint}
MintDecimals(mint) == IF mint = BaseMint THEN 1 ELSE 0

\* The result of a handler: the error it returns ("Ok" on success) and the
\* listing record and token accounts as its writes left them.  The host
\* keeps these writes only when the handler returned Ok.
Result(e, l, toks) == [err |-> e, listing |-> l, tokens |-> toks]

\* The keys a handler's caller can sign for in a cross-program invocation:
\* the first account of the instruction when it signed the transaction.
TxSigners(key, is_signer) == IF is_signer THEN {key} ELSE {}

\* invoke: the token transfer with the transaction's signers.
invoke(toks, source, destination, authority, tx_signers, amount) ==
    process_transfer(toks, source, destination, authority, tx_signers, amount)

\* invoke_signed with the seeds ["vault", seller, listing_id, [vault_bump]]
\* of the stored listing: the address these seeds derive signs as well.
invoke_signed(toks, source, destination, authority, tx_signers, l, amount) ==
    LET derived == create_program_address(l.seller, l.listing_id, l.vault_bump)
    IN  IF ~derived.some
        THEN [err |-> "BadSeeds", tokens |-> toks]
        ELSE process_transfer(toks, source, destination, authority,
                              tx_signers \cup {derived.val}, amount)

(***************************************************************************)
(* The four handlers.  l is the listing record, data_len the length of the *)
(* listing account's data, toks the token accounts, a the instruction's    *)
(* arguments and accounts.                                                 *)
(***************************************************************************)

\* fee_amount with the product taken in 64 bits, wrapping.
fee_amount_wrapping(price_per_token, quantity) ==
    [some |-> TRUE,
     val |-> DivSmall(SubSeq(widening_mul(price_per_token, quantity), 1, 8), 100)]

\* The 1% listing fee: price * quantity in 128 bits, divided by 100,
\* narrowed to 64 bits.  None stands for AmountOverflow.
fee_amount(price_per_token, quantity) ==
    LET trade_value == checked_mul(u128_from(price_per_token), u128_from(quantity))
    IN  IF ~trade_value.some THEN [some |-> FALSE, val |-> U64(0)]
        ELSE u64_try_from(DivSmall(trade_value.val, 100))

\* verify_x402_payment without the emptiness check.
verify_x402_payment_any(payload, expected_amount) ==
    [err |-> "Ok", hash |-> keccak_hash(payload)]

\* verify_x402_payment accepting a proof only for the fee it was made for
\* (here: a proof of no fee).
verify_x402_payment_for_amount(payload, expected_amount) ==
    IF payload = ""
    THEN [err |-> "InvalidX402Proof", hash |-> ZeroHash]
    ELSE IF ~IsZero(expected_amount)
    THEN [err |-> "X402AmountMismatch", hash |-> ZeroHash]
    ELSE [err |-> "Ok", hash |-> keccak_hash(payload)]

\* verify_x402_payment: the error, or the digest to store.
verify_x402_payment(payload, expected_amount) ==
    IF payload = ""
    THEN [err |-> "InvalidX402Proof", hash |-> ZeroHash]
    ELSE [err |-> "Ok", hash |-> keccak_hash(payload)]

\* fee_payment storing the digest of any payload supplied, whatever the
\* method.
fee_payment_any_digest(fee_payment_method, x402_payload, fee_amount_u64) ==
    IF fee_payment_method \notin {NativeSol, X402}
    THEN [err |-> "InvalidInstructionData", hash |-> ZeroHash]
    ELSE IF x402_payload.some /\ x402_payload.val # ""
    THEN [err |-> "Ok", hash |-> keccak_hash(x402_payload.val)]
    ELSE IF fee_payment_method = X402
    THEN [err |-> "InvalidX402Proof", hash |-> ZeroHash]
    ELSE [err |-> "Ok", hash |-> ZeroHash]

\* The match on fee_payment_method in initialize_listing.
fee_payment(fee_payment_method, x402_payload, fee_amount_u64) ==
    IF fee_payment_method = X402
    THEN IF ~x402_payload.some
         THEN [err |-> "InvalidX402Proof", hash |-> ZeroHash]
         ELSE verify_x402_payment(x402_payload.val, fee_amount_u64)
    ELSE IF fee_payment_method = NativeSol
    THEN [err |-> "Ok", hash |-> ZeroHash]
    ELSE [err |-> "InvalidInstructionData", hash |-> ZeroHash]

\* NewListing with the partial-fill bit always set.
NewListing_partial(a, bump, fee_amount_u64, hash) ==
    [seller |-> a.seller,
     base_mint |-> a.base_mint,
     quote_mint |-> a.quote_mint,
     vault_authority |-> a.vault_authority,
     price_per_token |-> a.price_per_token,
     quantity |-> a.quantity,
     filled |-> U64(0),
     listing_id |-> a.listing_id,
     flags |-> 1,
     vault_bump |-> bump,
     status |-> AwaitingDeposit,
     base_decimals |-> MintDecimals(a.base_mint),
     fee_payment_method |-> a.fee_payment_method,
     fee_amount_paid |-> fee_amount_u64,
     x402_payload_hash |-> hash]

\* The Listing that initialize_listing builds.
NewListing(a, bump, fee_amount_u64, hash) ==
    [seller |-> a.seller,
     base_mint |-> a.base_mint,
     quote_mint |-> a.quote_mint,
     vault_authority |-> a.vault_authority,
     price_per_token |-> a.price_per_token,
     quantity |-> a.quantity,
     filled |-> U64(0),
     listing_id |-> a.listing_id,
     flags |-> IF a.allow_partial THEN 1 ELSE 0,
     vault_bump |-> bump,
     status |-> AwaitingDeposit,
     base_decimals |-> MintDecimals(a.base_mint),
     fee_payment_method |-> a.fee_payment_method,
     fee_amount_paid |-> fee_amount_u64,
     x402_payload_hash |-> hash]

\* vault_authority_matches accepting any custody address.
vault_authority_any(supplied, expected) == TRUE

\* The comparison of the supplied custody address with the derived one.
vault_authority_matches(supplied, expected) == supplied = expected

initialize_listing(l, data_len, toks, a) ==
    IF IsZero(a.quantity) \/ IsZero(a.price_per_token)
        THEN Result("AmountOverflow", l, toks)
    ELSE IF ~a.is_signer
        THEN Result("MissingRequiredSignature", l, toks)
    ELSE IF a.listing_owner # ProgramId
        THEN Result("IncorrectProgramId", l, toks)
    ELSE IF ~AllZero(l)
        THEN Result("AlreadyInitialized", l, toks)
    ELSE IF a.system_program # SystemProgramId
        THEN Result("IncorrectProgramId", l, toks)
    ELSE LET pda == find_program_address(a.seller, a.listing_id)
         IN
    IF ~vault_authority_matches(a.vault_authority, pda.address)
        THEN Result("IncorrectAuthority", l, toks)
    ELSE IF a.vault_token_account #
                get_associated_token_address(a.vault_authority, a.base_mint)
        THEN Result("MintMismatch", l, toks)
    ELSE IF a.base_mint \notin MintKeys
        THEN Result("InvalidAccountData", l, toks)
    ELSE LET fee == fee_amount(a.price_per_token, a.quantity)
         IN
    IF ~fee.some
        THEN Result("AmountOverflow", l, toks)
    ELSE LET paid == fee_payment(a.fee_payment_method, a.x402_payload, fee.val)
         IN
    IF paid.err # "Ok"
        THEN Result(paid.err, l, toks)
    ELSE IF serialize_listing(data_len) # "Ok"
        THEN Result(serialize_listing(data_len), l, toks)
    ELSE Result("Ok", NewListing(a, pda.bump, fee.val, paid.hash), toks)

\* seller_matches accepting any signer.
seller_matches_any(l, key) == TRUE

\* The comparison of the signer with the stored seller, in deposit_tokens
\* and in cancel_listing.
seller_matches(l, key) == key = l.seller

\* deposit_allowed without the status check.
deposit_allowed_any(l) == TRUE

\* The status from which a deposit is accepted.
deposit_allowed(l) == status(l) = AwaitingDeposit

\* deposit_amount taking the price for the quantity.
deposit_amount_price(l) == l.price_per_token

\* The amount a deposit moves.
deposit_amount(l) == l.quantity

deposit_tokens(l, data_len, toks, a) ==
    IF ~a.is_signer
        THEN Result("MissingRequiredSignature", l, toks)
    ELSE IF deserialize_listing(a.listing_owner, data_len) # "Ok"
        THEN Result(deserialize_listing(a.listing_owner, data_len), l, toks)
    ELSE IF ~deposit_allowed(l)
        THEN Result("InvalidListingStatus", l, toks)
    ELSE IF ~seller_matches(l, a.seller)
        THEN Result("IncorrectAuthority", l, toks)
    ELSE IF ~IsTokenAccount(toks, a.seller_token_account)
        THEN Result("InvalidAccountData", l, toks)
    ELSE IF assert_token_account_owner(toks[a.seller_token_account], a.seller) # "Ok"
        THEN Result("IncorrectAuthority", l, toks)
    ELSE IF assert_token_account_mint(toks[a.seller_token_account], l.base_mint) # "Ok"
        THEN Result("MintMismatch", l, toks)
    ELSE IF ~IsTokenAccount(toks, a.vault_token_account)
        THEN Result("InvalidAccountData", l, toks)
    ELSE IF assert_token_account_owner(toks[a.vault_token_account], a.vault_authority) # "Ok"
        THEN Result("IncorrectAuthority", l, toks)
    ELSE IF assert_token_account_mint(toks[a.vault_token_account], l.base_mint) # "Ok"
        THEN Result("MintMismatch", l, toks)
    ELSE IF a.vault_authority # l.vault_authority
        THEN Result("IncorrectAuthority", l, toks)
    ELSE IF Lt(toks[a.seller_token_account].amount, deposit_amount(l))
        THEN Result("InsufficientFunds", l, toks)
    ELSE LET moved == invoke(toks, a.seller_token_account, a.vault_token_account,
                             a.seller, TxSigners(a.seller, a.is_signer),
                             deposit_amount(l))
         IN
    IF moved.err # "Ok"
        THEN Result(moved.err, l, moved.tokens)
    ELSE IF serialize_listing(data_len) # "Ok"
        THEN Result(serialize_listing(data_len), l, moved.tokens)
    ELSE Result("Ok", set_status(l, Active), moved.tokens)

\* quote_amount accepting a quotient of zero.
quote_amount_zero_ok(quantity, price_per_token, base_decimals) ==
    LET decimals_factor == checked_pow10(base_decimals)
        product == checked_mul(u128_from(quantity), u128_from(price_per_token))
    IN  IF ~decimals_factor.some \/ ~product.some
        THEN [some |-> FALSE, val |-> U64(0)]
        ELSE u64_try_from(DivPow10(product.val, base_decimals))

\* quote_amount without the division by 10^base_decimals.
quote_amount_undivided(quantity, price_per_token, base_decimals) ==
    LET product == checked_mul(u128_from(quantity), u128_from(price_per_token))
    IN  IF ~product.some \/ IsZero(product.val)
        THEN [some |-> FALSE, val |-> U64(0)]
        ELSE u64_try_from(product.val)

\* quote_amount rounding the quotient up.
quote_amount_rounded_up(quantity, price_per_token, base_decimals) ==
    LET decimals_factor == checked_pow10(base_decimals)
        product == checked_mul(u128_from(quantity), u128_from(price_per_token))
    IN  IF ~decimals_factor.some \/ ~product.some
        THEN [some |-> FALSE, val |-> U64(0)]
        ELSE LET quotient ==
                     DivPow10(wrapping_add(product.val,
                                           to_le_bytes(10 ^ base_decimals - 1, 16)),
                              base_decimals)
             IN  IF IsZero(quotient)
                 THEN [some |-> FALSE, val |-> U64(0)]
                 ELSE u64_try_from(quotient)

\* The quote amount of a purchase: quantity * price in 128 bits, divided by
\* 10^base_decimals, non-zero, narrowed to 64 bits.  None stands for
\* AmountOverflow.
quote_amount(quantity, price_per_token, base_decimals) ==
    LET decimals_factor == checked_pow10(base_decimals)
        product == checked_mul(u128_from(quantity), u128_from(price_per_token))
    IN  IF ~decimals_factor.some \/ ~product.some
        THEN [some |-> FALSE, val |-> U64(0)]
        ELSE LET quotient == DivPow10(product.val, base_decimals)
             IN  IF IsZero(quotient)
                 THEN [some |-> FALSE, val |-> U64(0)]
                 ELSE u64_try_from(quotient)

\* The account validation of purchase_tokens, after the quote amount.
purchase_accounts(l, toks, a, quote) ==
    IF ~IsTokenAccount(toks, a.seller_quote_account) THEN "InvalidAccountData"
    ELSE IF toks[a.seller_quote_account].owner # l.seller THEN "IncorrectAuthority"
    ELSE IF toks[a.seller_quote_account].mint # l.quote_mint THEN "MintMismatch"
    ELSE IF ~IsTokenAccount(toks, a.buyer_quote_account) THEN "InvalidAccountData"
    ELSE IF toks[a.buyer_quote_account].owner # a.buyer THEN "IncorrectAuthority"
    ELSE IF toks[a.buyer_quote_account].mint # l.quote_mint THEN "MintMismatch"
    ELSE IF Lt(toks[a.buyer_quote_account].amount, quote) THEN "InsufficientFunds"
    ELSE IF ~IsTokenAccount(toks, a.buyer_base_account) THEN "InvalidAccountData"
    ELSE IF toks[a.buyer_base_account].owner # a.buyer THEN "IncorrectAuthority"
    ELSE IF toks[a.buyer_base_account].mint # l.base_mint THEN "MintMismatch"
    ELSE IF ~IsTokenAccount(toks, a.vault_token_account) THEN "InvalidAccountData"
    ELSE IF toks[a.vault_token_account].owner # a.vault_authority THEN "IncorrectAuthority"
    ELSE IF toks[a.vault_token_account].mint # l.base_mint THEN "MintMismatch"
    ELSE IF Lt(toks[a.vault_token_account].amount, a.quantity) THEN "InsufficientFunds"
    ELSE "Ok"

\* purchase_fill counting the purchased quantity twice.
purchase_fill_twice(l, quantity) ==
    LET l1 == [l EXCEPT !.filled = wrapping_add(wrapping_add(l.filled, quantity),
                                                quantity)]
    IN  [some |-> TRUE,
         val |-> IF Le(l1.quantity, l1.filled)
                 THEN set_status(l1, Completed) ELSE l1]

\* purchase_fill marking the listing Completed after every purchase.
purchase_fill_completes(l, quantity) ==
    [some |-> TRUE,
     val |-> set_status([l EXCEPT !.filled = wrapping_add(l.filled, quantity)],
                        Completed)]

\* purchase_fill leaving the status as it is.
purchase_fill_stays(l, quantity) ==
    [some |-> TRUE, val |-> [l EXCEPT !.filled = wrapping_add(l.filled, quantity)]]

\* purchase_fill subtracting the quantity from filled: the checked
\* arithmetic fails, after both transfers, when filled is below the quantity.
purchase_fill_subtracts(l, quantity) ==
    LET filled == checked_sub(l.filled, quantity)
    IN  IF ~filled.some THEN [some |-> FALSE, val |-> l]
        ELSE LET l1 == [l EXCEPT !.filled = filled.val]
             IN  [some |-> TRUE,
                  val |-> IF Le(l1.quantity, l1.filled)
                          THEN set_status(l1, Completed) ELSE l1]

\* The state update that ends purchase_tokens.
purchase_fill(l, quantity) ==
    LET filled == checked_add(l.filled, quantity)
    IN  IF ~filled.some THEN [some |-> FALSE, val |-> l]
        ELSE LET l1 == [l EXCEPT !.filled = filled.val]
             IN  [some |-> TRUE,
                  val |-> IF Le(l1.quantity, l1.filled)
                          THEN set_status(l1, Completed) ELSE l1]

\* purchase_allowed without the status check.
purchase_allowed_any(l) == TRUE

\* The status in which a purchase is accepted.
purchase_allowed(l) == status(l) = Active

purchase_tokens(l, data_len, toks, a) ==
    IF IsZero(a.quantity)
        THEN Result("AmountOverflow", l, toks)
    ELSE IF ~a.is_signer
        THEN Result("MissingRequiredSignature", l, toks)
    ELSE IF deserialize_listing(a.listing_owner, data_len) # "Ok"
        THEN Result(deserialize_listing(a.listing_owner, data_len), l, toks)
    ELSE IF ~purchase_allowed(l)
        THEN Result("InvalidListingStatus", l, toks)
    ELSE IF a.vault_authority # l.vault_authority
        THEN Result("IncorrectAuthority", l, toks)
    ELSE IF Lt(remaining(l), a.quantity)
        THEN Result("InsufficientQuantity", l, toks)
    ELSE IF Lt(a.quantity, remaining(l)) /\ ~allow_partial(l)
        THEN Result("PartialFillDisabled", l, toks)
    ELSE LET quote == quote_amount(a.quantity, l.price_per_token, l.base_decimals)
         IN
    IF ~quote.some
        THEN Result("AmountOverflow", l, toks)
    ELSE IF purchase_accounts(l, toks, a, quote.val) # "Ok"
        THEN Result(purchase_accounts(l, toks, a, quote.val), l, toks)
    ELSE LET paid == invoke(toks, a.buyer_quote_account, a.seller_quote_account,
                            a.buyer, TxSigners(a.buyer, a.is_signer), quote.val)
         IN
    IF paid.err # "Ok"
        THEN Result(paid.err, l, paid.tokens)
    ELSE LET sent == invoke_signed(paid.tokens, a.vault_token_account,
                                   a.buyer_base_account, a.vault_authority,
                                   TxSigners(a.buyer, a.is_signer), l, a.quantity)
         IN
    IF sent.err # "Ok"
        THEN Result(sent.err, l, sent.tokens)
    ELSE LET filled == purchase_fill(l, a.quantity)
         IN
    IF ~filled.some
        THEN Result("AmountOverflow", l, sent.tokens)
    ELSE IF serialize_listing(data_len) # "Ok"
        THEN Result(serialize_listing(data_len), l, sent.tokens)
    ELSE Result("Ok", filled.val, sent.tokens)

\* The account validation of cancel_listing before its transfer.
cancel_accounts(l, toks, a) ==
    IF ~IsTokenAccount(toks, a.vault_token_account) THEN "InvalidAccountData"
    ELSE IF toks[a.vault_token_account].owner # a.vault_authority THEN "IncorrectAuthority"
    ELSE IF toks[a.vault_token_account].mint # l.base_mint THEN "MintMismatch"
    ELSE IF ~IsTokenAccount(toks, a.seller_token_account) THEN "InvalidAccountData"
    ELSE IF toks[a.seller_token_account].owner # a.seller THEN "IncorrectAuthority"
    ELSE IF toks[a.seller_token_account].mint # l.base_mint THEN "MintMismatch"
    ELSE "Ok"

\* cancel_listing from Active: return what remains, then mark Cancelled.
cancel_active(l, data_len, toks, a) ==
    LET left == remaining(l)
        back == IF IsZero(left) THEN [err |-> "Ok", tokens |-> toks]
                ELSE IF cancel_accounts(l, toks, a) # "Ok"
                THEN [err |-> cancel_accounts(l, toks, a), tokens |-> toks]
                ELSE invoke_signed(toks, a.vault_token_account,
                                   a.seller_token_account, a.vault_authority,
                                   TxSigners(a.seller, a.is_signer), l, left)
    IN  IF back.err # "Ok"
            THEN Result(back.err, l, back.tokens)
        ELSE IF serialize_listing(data_len) # "Ok"
            THEN Result(serialize_listing(data_len), l, back.tokens)
        ELSE Result("Ok", set_status(l, Cancelled), back.tokens)

\* cancel_with_transfer taken from every remaining status.
cancel_with_transfer_any(l) == TRUE

\* The branch of cancel_listing that returns what remains.
cancel_with_transfer(l) == status(l) = Active

\* cancel_without_transfer never taken.
cancel_without_transfer_never(l) == FALSE

\* The branch of cancel_listing that cancels without a transfer.
cancel_without_transfer(l) == status(l) = AwaitingDeposit

cancel_listing(l, data_len, toks, a) ==
    IF ~a.is_signer
        THEN Result("MissingRequiredSignature", l, toks)
    ELSE IF deserialize_listing(a.listing_owner, data_len) # "Ok"
        THEN Result(deserialize_listing(a.listing_owner, data_len), l, toks)
    ELSE IF ~seller_matches(l, a.seller)
        THEN Result("IncorrectAuthority", l, toks)
    ELSE IF cancel_without_transfer(l)
        THEN IF serialize_listing(data_len) # "Ok"
             THEN Result(serialize_listing(data_len), l, toks)
             ELSE Result("Ok", set_status(l, Cancelled), toks)
    ELSE IF cancel_with_transfer(l)
        THEN cancel_active(l, data_len, toks, a)
    ELSE Result("InvalidListingStatus", l, toks)

(***************************************************************************)
(* State.                                                                  *)
(***************************************************************************)

VARIABLES
    listing,    \* the Listing stored in the listing account
    data_len,   \* the length of the listing account's data
    tokens,     \* token account key -> [owner, mint, amount, frozen]
    last,       \* the latest invocation: its handler, arguments and result
    withdrawn,  \* the total the program has moved out of the vault so far
    proceeds    \* the total of the quote amounts of the purchases so far

vars == <<listing, data_len, tokens, last, withdrawn, proceeds>>

\* Balances the token accounts start with.
SellerBase == 8
SellerQuote == 1
BuyerQuote == 2

\* The largest quantity a purchase asks for.
MaxPurchase == 5

\* The listing identifier the existing vault token account was created for.
ListingId == U64(1)

VaultAuthority == find_program_address(Alice, ListingId).address
VaultTokenAccount == get_associated_token_address(VaultAuthority, BaseMint)

TokenAccount(owner, mint, amount) ==
    [owner |-> owner, mint |-> mint, amount |-> U64(amount), frozen |-> FALSE]

\* A second base-token account of Bob, which the mint's freeze authority has
\* frozen: the token program refuses every transfer into or out of it.
FrozenTokenAccount == <<3, Bob, BaseMint>>

\* The token accounts that exist: both wallets' associated accounts for both
\* mints, Bob's frozen account, and the empty vault of Alice's listing
\* ListingId.
InitialTokens ==
    (get_associated_token_address(Alice, BaseMint) :> TokenAccount(Alice, BaseMint, SellerBase))
    @@ (get_associated_token_address(Alice, QuoteMint) :> TokenAccount(Alice, QuoteMint, SellerQuote))
    @@ (get_associated_token_address(Bob, BaseMint) :> TokenAccount(Bob, BaseMint, 0))
    @@ (get_associated_token_address(Bob, QuoteMint) :> TokenAccount(Bob, QuoteMint, BuyerQuote))
    @@ (FrozenTokenAccount :> [TokenAccount(Bob, BaseMint, 0) EXCEPT !.frozen = TRUE])
    @@ (VaultTokenAccount :> TokenAccount(VaultAuthority, BaseMint, 0))

\* The keys a caller passes where a token account is expected: every token
\* account, and one account (a mint) that holds none.
TokenRoleKeys == DOMAIN InitialTokens \cup {BaseMint}

\* The keys a caller passes as the custody address.
AuthorityKeys ==
    {VaultAuthority, find_program_address(Bob, ListingId).address,
     <<1, Alice, ListingId, 255>>, Alice}

\* What last holds for the arguments of an invocation that failed.
NoArgs == [is_signer |-> FALSE]

\* The record of an invocation: the handler, the error it returned, and,
\* when it returned Ok, the arguments and accounts it was given.
Invoked(op, a, r) ==
    [op |-> op, err |-> r.err, args |-> IF r.err = "Ok" THEN a ELSE NoArgs]

Init ==
    /\ listing = ZeroListing
    /\ data_len \in {LEN - 1, LEN, LEN + 1}
    /\ tokens = InitialTokens
    /\ last = [op |-> "None", err |-> "Ok", args |-> NoArgs]
    /\ withdrawn = U64(0)
    /\ proceeds = U64(0)

(***************************************************************************)
(* The invocations callers make.  A well-formed call derives its accounts  *)
(* the way a client does; the other calls change one argument or account   *)
(* of a well-formed call.                                                  *)
(***************************************************************************)

U64Max == Tuple([i \in 1..8 |-> 255])
TwoTo62 == Tuple([i \in 1..8 |-> IF i = 8 THEN 64 ELSE 0])

InitCall(seller, listing_id, base_mint, price, quantity, partial, method, payload) ==
    LET authority == find_program_address(seller, listing_id).address
    IN  [seller |-> seller, is_signer |-> TRUE, listing_owner |-> ProgramId,
         listing_id |-> listing_id, price_per_token |-> price,
         quantity |-> quantity, allow_partial |-> partial,
         fee_payment_method |-> method, x402_payload |-> payload,
         vault_authority |-> authority,
         vault_token_account |-> get_associated_token_address(authority, base_mint),
         base_mint |-> base_mint, quote_mint |-> QuoteMint,
         system_program |-> SystemProgramId]

\* Well-formed initializations of Alice's listing ListingId.
InitMain ==
    {InitCall(Alice, ListingId, BaseMint, U64(5), U64(4), TRUE, X402, Some("a")),
     InitCall(Alice, ListingId, BaseMint, U64(5), U64(4), FALSE, NativeSol, None)}

\* Other well-formed initializations: other sellers, identifiers, mints,
\* payloads and amounts.
InitOther ==
    {InitCall(Bob, ListingId, BaseMint, U64(5), U64(4), TRUE, NativeSol, None),
     InitCall(Alice, U64(2), BaseMint, U64(5), U64(4), TRUE, NativeSol, None),
     InitCall(Alice, ListingId, QuoteMint, U64(5), U64(4), TRUE, NativeSol, None),
     InitCall(Alice, ListingId, BaseMint, U64(3), U64(50), TRUE, NativeSol, Some("a")),
     InitCall(Alice, ListingId, BaseMint, U64(5), U64(6), TRUE, NativeSol, None),
     InitCall(Alice, ListingId, BaseMint, U64(1), U64(4), TRUE, X402, Some("b")),
     InitCall(Alice, ListingId, BaseMint, TwoTo62, U64(100), FALSE, X402, Some("a"))}

\* One argument or account of a well-formed initialization changed.
InitChanged(c) ==
    {[c EXCEPT !.is_signer = FALSE],
     [c EXCEPT !.listing_owner = SystemProgramId],
     [c EXCEPT !.system_program = ProgramId],
     [c EXCEPT !.vault_token_account = get_associated_token_address(Alice, BaseMint)],
     [c EXCEPT !.vault_token_account = get_associated_token_address(c.vault_authority, QuoteMint)],
     [c EXCEPT !.base_mint = Alice,
               !.vault_token_account = get_associated_token_address(c.vault_authority, Alice)],
     [c EXCEPT !.price_per_token = U64(0)],
     [c EXCEPT !.quantity = U64(0)],
     [c EXCEPT !.price_per_token = U64Max, !.quantity = U64(200)],
     [c EXCEPT !.fee_payment_method = 2],
     [c EXCEPT !.fee_payment_method = X402, !.x402_payload = None],
     [c EXCEPT !.fee_payment_method = X402, !.x402_payload = Some("")]}
    \cup {[c EXCEPT !.vault_authority = k] : k \in AuthorityKeys}
    \cup {[c EXCEPT !.vault_authority = k,
                    !.vault_token_account =
                        get_associated_token_address(k, c.base_mint)] :
              k \in AuthorityKeys}

InitCalls ==
    InitMain \cup InitOther
    \cup InitChanged(InitCall(Alice, ListingId, BaseMint, U64(5), U64(4), TRUE, NativeSol, Some("a")))

DepositCall(seller, listing_id) ==
    LET authority == find_program_address(seller, listing_id).address
    IN  [seller |-> seller, is_signer |-> TRUE, listing_owner |-> ProgramId,
         seller_token_account |-> get_associated_token_address(seller, BaseMint),
         vault_authority |-> authority,
         vault_token_account |-> get_associated_token_address(authority, BaseMint)]

DepositChanged(c) ==
    {[c EXCEPT !.is_signer = FALSE],
     [c EXCEPT !.listing_owner = SystemProgramId]}
    \cup {[c EXCEPT !.seller_token_account = k] : k \in TokenRoleKeys}
    \cup {[c EXCEPT !.vault_token_account = k] : k \in TokenRoleKeys}
    \cup {[c EXCEPT !.vault_authority = k] : k \in AuthorityKeys}

DepositCalls ==
    {DepositCall(Alice, ListingId), DepositCall(Bob, ListingId),
     DepositCall(Alice, U64(2))}
    \cup DepositChanged(DepositCall(Alice, ListingId))
    \cup {[DepositCall(Bob, ListingId) EXCEPT
              !.vault_authority = VaultAuthority,
              !.vault_token_account = VaultTokenAccount]}

PurchaseCall(buyer, quantity) ==
    [buyer |-> buyer, is_signer |-> TRUE, listing_owner |-> ProgramId,
     quantity |-> quantity,
     seller_quote_account |-> get_associated_token_address(Alice, QuoteMint),
     buyer_quote_account |-> get_associated_token_address(buyer, QuoteMint),
     buyer_base_account |-> get_associated_token_address(buyer, BaseMint),
     vault_authority |-> VaultAuthority,
     vault_token_account |-> VaultTokenAccount]

PurchaseChanged(c) ==
    {[c EXCEPT !.is_signer = FALSE],
     [c EXCEPT !.listing_owner = SystemProgramId]}
    \cup {[c EXCEPT !.seller_quote_account = k] : k \in TokenRoleKeys}
    \cup {[c EXCEPT !.buyer_quote_account = k] : k \in TokenRoleKeys}
    \cup {[c EXCEPT !.buyer_base_account = k] : k \in TokenRoleKeys}
    \cup {[c EXCEPT !.vault_token_account = k] : k \in TokenRoleKeys}
    \cup {[c EXCEPT !.vault_authority = k] : k \in AuthorityKeys}

PurchaseCalls ==
    {PurchaseCall(buyer, U64(q)) : buyer \in Wallets, q \in 0..MaxPurchase}
    \cup PurchaseChanged(PurchaseCall(Bob, U64(2)))

CancelCall(seller, listing_id) ==
    LET authority == find_program_address(seller, listing_id).address
    IN  [seller |-> seller, is_signer |-> TRUE, listing_owner |-> ProgramId,
         vault_authority |-> authority,
         vault_token_account |-> get_associated_token_address(authority, BaseMint),
         seller_token_account |-> get_associated_token_address(seller, BaseMint)]

CancelChanged(c) ==
    {[c EXCEPT !.is_signer = FALSE],
     [c EXCEPT !.listing_owner = SystemProgramId],
     [c EXCEPT !.vault_authority = c.seller,
               !.vault_token_account = c.seller_token_account]}
    \cup {[c EXCEPT !.vault_token_account = k] : k \in TokenRoleKeys}
    \cup {[c EXCEPT !.seller_token_account = k] : k \in TokenRoleKeys}
    \cup {[c EXCEPT !.vault_authority = k] : k \in AuthorityKeys}

CancelCalls ==
    {CancelCall(Alice, ListingId), CancelCall(Bob, ListingId),
     CancelCall(Alice, U64(2))}
    \cup CancelChanged(CancelCall(Alice, ListingId))

(***************************************************************************)
(* Actions: one invocation each, executed to completion.  The host commits *)
(* the handler's writes when it returns Ok and discards them otherwise.    *)
(***************************************************************************)

\* commit keeping the writes of an invocation that returned an error.
commit_always(r, before, after) == after

\* The host's atomicity, as the specification describes it (the host is not
\* part of the program's source): an invocation's writes reach the accounts
\* only when the handler returned Ok; an error return leaves every account
\* as it was before the invocation.
commit(r, before, after) == IF r.err = "Ok" THEN after ELSE before

\* What an invocation moved out of the vault.
outflow(before, after) ==
    saturating_sub(before[VaultTokenAccount].amount, after[VaultTokenAccount].amount)

InitializeListing ==
    \E a \in InitCalls :
        LET r == initialize_listing(listing, data_len, tokens, a)
        IN  /\ last' = Invoked("InitializeListing", a, r)
            /\ listing' = commit(r, listing, r.listing)
            /\ tokens' = commit(r, tokens, r.tokens)
            /\ withdrawn' = wrapping_add(withdrawn,
                                         outflow(tokens, commit(r, tokens, r.tokens)))
            /\ UNCHANGED <<data_len, proceeds>>

DepositTokens ==
    \E a \in DepositCalls :
        LET r == deposit_tokens(listing, data_len, tokens, a)
        IN  /\ last' = Invoked("DepositTokens", a, r)
            /\ listing' = commit(r, listing, r.listing)
            /\ tokens' = commit(r, tokens, r.tokens)
            /\ withdrawn' = wrapping_add(withdrawn,
                                         outflow(tokens, commit(r, tokens, r.tokens)))
            /\ UNCHANGED <<data_len, proceeds>>

Purchase ==
    \E a \in PurchaseCalls :
        LET r == purchase_tokens(listing, data_len, tokens, a)
        IN  /\ last' = Invoked("Purchase", a, r)
            /\ listing' = commit(r, listing, r.listing)
            /\ tokens' = commit(r, tokens, r.tokens)
            /\ withdrawn' = wrapping_add(withdrawn,
                                         outflow(tokens, commit(r, tokens, r.tokens)))
            /\ proceeds' = commit(r, proceeds,
                                  wrapping_add(proceeds,
                                      quote_amount(a.quantity, listing.price_per_token,
                                                   listing.base_decimals).val))
            /\ UNCHANGED data_len

CancelListing ==
    \E a \in CancelCalls :
        LET r == cancel_listing(listing, data_len, tokens, a)
        IN  /\ last' = Invoked("CancelListing", a, r)
            /\ listing' = commit(r, listing, r.listing)
            /\ tokens' = commit(r, tokens, r.tokens)
            /\ withdrawn' = wrapping_add(withdrawn,
                                         outflow(tokens, commit(r, tokens, r.tokens)))
            /\ UNCHANGED <<data_len, proceeds>>

Next == InitializeListing \/ DepositTokens \/ Purchase \/ CancelListing

Spec == Init /\ [][Next]_vars

(***************************************************************************)
(* Properties.  An invocation "fails with E when c" is read the way the    *)
(* handlers work: they validate eagerly and return the first violated      *)
(* condition, so E is the error when c is the first condition violated,    *)
(* and the invocation fails whenever c holds.                              *)
(***************************************************************************)

InitOk == last.op = "InitializeListing" /\ last.err = "Ok"
DepositOk == last.op = "DepositTokens" /\ last.err = "Ok"
PurchaseOk == last.op = "Purchase" /\ last.err = "Ok"
CancelOk == last.op = "CancelListing" /\ last.err = "Ok"

\* C1: in every reachable state filled <= quantity, and no invocation ever
\* decreases filled.
C1_FilledBounded ==
    /\ [](Le(listing.filled, listing.quantity))
    /\ [][Le(listing.filled, listing'.filled)]_vars

\* A purchase has filled part of a listing, and a later purchase the rest.
C1_Witness ==
    /\ PurchaseOk
    /\ Lt(U64(0), last.args.quantity)
    /\ Lt(last.args.quantity, listing.filled)
    /\ listing.filled = listing.quantity

Terminal == {Completed, Cancelled}

Transitions ==
    {<<AwaitingDeposit, Active>>, <<Active, Completed>>,
     <<AwaitingDeposit, Cancelled>>, <<Active, Cancelled>>}

\* A step that changes the status takes one of the four transitions, by
\* the operation that owns it.
StatusStep ==
    (status(listing') # status(listing)) =>
        /\ <<status(listing), status(listing')>> \in Transitions
        /\ last'.err = "Ok"
        /\ (status(listing') = Active) => (last'.op = "DepositTokens")
        /\ (status(listing') = Completed) =>
               (last'.op = "Purchase" /\ listing'.filled = listing'.quantity)
        /\ (status(listing') = Cancelled) => (last'.op = "CancelListing")

\* A step from a terminal status: the status stays, and a deposit, purchase
\* or cancel fails and writes nothing.
TerminalStep ==
    (status(listing) \in Terminal) =>
        /\ status(listing') = status(listing)
        /\ (last'.op \in {"DepositTokens", "Purchase", "CancelListing"}) =>
               (last'.err # "Ok" /\ listing' = listing /\ tokens' = tokens)

\* In a terminal status no deposit, purchase or cancel succeeds.
TerminalRejects ==
    (status(listing) \in Terminal) =>
        /\ \A a \in DepositCalls :
               deposit_tokens(listing, data_len, tokens, a).err # "Ok"
        /\ \A a \in PurchaseCalls :
               purchase_tokens(listing, data_len, tokens, a).err # "Ok"
        /\ \A a \in CancelCalls :
               cancel_listing(listing, data_len, tokens, a).err # "Ok"

\* C2: the status only ever moves AwaitingDeposit -> Active (deposit),
\* Active -> Completed (a purchase that fills the listing), or
\* AwaitingDeposit/Active -> Cancelled (cancel); from Completed or Cancelled
\* every deposit, purchase and cancel fails and the status stays.
C2_StatusTransitions ==
    /\ [][StatusStep /\ TerminalStep]_vars
    /\ []TerminalRejects

\* A cancel has just failed on a listing that purchases completed.
C2_Witness ==
    /\ status(listing) = Completed
    /\ last.op = "CancelListing"
    /\ last.err = "InvalidListingStatus"

\* The checks of initialize_listing that precede the all-zero check pass.
InitReachesZeroCheck(a) ==
    /\ ~IsZero(a.quantity)
    /\ ~IsZero(a.price_per_token)
    /\ a.is_signer
    /\ a.listing_owner = ProgramId

\* An initialization succeeds only on the all-zero record and leaves any
\* other record as it is.
InitStep ==
    (last'.op = "InitializeListing") =>
        /\ (last'.err = "Ok") => (listing = ZeroListing)
        /\ (listing # ZeroListing) => (last'.err # "Ok" /\ listing' = listing)

\* On an initialized record every initialization fails, with
\* AlreadyInitialized when the all-zero check is reached.
InitRejected ==
    (listing # ZeroListing) =>
        \A a \in InitCalls :
            LET r == initialize_listing(listing, data_len, tokens, a)
            IN  /\ r.err # "Ok"
                /\ InitReachesZeroCheck(a) => (r.err = "AlreadyInitialized")

\* C3: InitializeListing succeeds only on a record that is all-zero; on a
\* record that has been initialized, in any status, it fails, with
\* AlreadyInitialized (when the all-zero check is reached), and the record
\* is unchanged.
C3_InitOnce ==
    /\ [][InitStep]_vars
    /\ []InitRejected

\* A well-formed initialization has just been rejected on a completed listing.
C3_Witness ==
    /\ status(listing) = Completed
    /\ last.op = "InitializeListing"
    /\ last.err = "AlreadyInitialized"

\* C4: after a successful InitializeListing the record has status
\* AwaitingDeposit, filled 0, the signer as seller, the supplied price,
\* quantity, listing_id and fee_payment_method, and bit 0 of flags set
\* exactly when allow_partial was true.
C4_InitWrites ==
    InitOk =>
        /\ status(listing) = AwaitingDeposit
        /\ listing.filled = U64(0)
        /\ last.args.is_signer
        /\ listing.seller = last.args.seller
        /\ listing.price_per_token = last.args.price_per_token
        /\ listing.quantity = last.args.quantity
        /\ listing.listing_id = last.args.listing_id
        /\ listing.fee_payment_method = last.args.fee_payment_method
        /\ (listing.flags % 2 = 1) <=> last.args.allow_partial
        /\ listing.flags \in {0, 1}

\* A listing that forbids partial fills has just been initialized.
C4_Witness ==
    /\ InitOk
    /\ ~last.args.allow_partial
    /\ last.args.fee_payment_method = NativeSol
    /\ listing.quantity = U64(4)

\* C5: after a successful InitializeListing fee_amount_paid is
\* floor(price_per_token * quantity / 100): 100 * fee <= price * quantity <
\* 100 * fee + 100 in 128-bit arithmetic, also when the product exceeds
\* 64 bits.
C5_FeeAmount ==
    InitOk =>
        LET product == widening_mul(listing.price_per_token, listing.quantity)
            hundredfold == widening_mul(listing.fee_amount_paid, U64(100))
        IN  /\ Le(hundredfold, product)
            /\ Lt(product, wrapping_add(hundredfold, to_le_bytes(100, 16)))
            /\ Le(hundredfold, wrapping_add(hundredfold, to_le_bytes(100, 16)))

\* A listing whose trade value exceeds 64 bits has been initialized.
C5_Witness ==
    /\ InitOk
    /\ ~IsZero(SubSeq(widening_mul(listing.price_per_token, listing.quantity), 9, 16))
    /\ listing.fee_amount_paid = TwoTo62

\* C6: after a successful InitializeListing x402_payload_hash is all-zero
\* exactly when fee_payment_method is NativeSol; with X402 it is the
\* non-zero digest of the supplied, non-empty payload.
C6_PayloadHash ==
    InitOk =>
        /\ (listing.x402_payload_hash = ZeroHash) <=>
               (listing.fee_payment_method = NativeSol)
        /\ (listing.fee_payment_method = X402) =>
               /\ last.args.x402_payload.some
               /\ last.args.x402_payload.val # ""
               /\ listing.x402_payload_hash = keccak_hash(last.args.x402_payload.val)
               /\ listing.x402_payload_hash # ZeroHash

\* An X402 listing has been initialized with payload "b".
C6_Witness ==
    /\ InitOk
    /\ listing.fee_payment_method = X402
    /\ listing.x402_payload_hash = keccak_hash("b")

\* The checks of initialize_listing that precede the fee payment pass.
InitReachesFeePayment(a) ==
    /\ InitReachesZeroCheck(a)
    /\ listing = ZeroListing
    /\ a.system_program = SystemProgramId
    /\ a.vault_authority = find_program_address(a.seller, a.listing_id).address
    /\ a.vault_token_account =
           get_associated_token_address(a.vault_authority, a.base_mint)
    /\ a.base_mint \in MintKeys
    /\ fee_amount(a.price_per_token, a.quantity).some

\* The payload of an X402 initialization is absent or empty.
NoPayload(a) ==
    /\ a.fee_payment_method = X402
    /\ (~a.x402_payload.some) \/ (a.x402_payload.val = "")

\* An X402 initialization without a payload fails and writes nothing, with
\* InvalidX402Proof when the fee payment is reached.
NoPayloadRejected ==
    \A a \in InitCalls :
        NoPayload(a) =>
            LET r == initialize_listing(listing, data_len, tokens, a)
            IN  /\ r.err # "Ok"
                /\ r.listing = listing
                /\ InitReachesFeePayment(a) => (r.err = "InvalidX402Proof")

\* An initialization that fails with InvalidX402Proof leaves the record
\* all-zero.
NoPayloadStep ==
    (last'.op = "InitializeListing" /\ last'.err = "InvalidX402Proof") =>
        (listing = ZeroListing /\ listing' = ZeroListing)

\* C7: InitializeListing with method X402 and an absent or empty payload
\* fails, with InvalidX402Proof (when the fee payment is reached), and the
\* listing record stays all-zero.
C7_MissingPayload ==
    /\ []NoPayloadRejected
    /\ [][NoPayloadStep]_vars

\* An X402 initialization has just been rejected for its payload.
C7_Witness ==
    /\ last.op = "InitializeListing"
    /\ last.err = "InvalidX402Proof"
    /\ listing = ZeroListing

\* The custody address or the vault token address of an initialization is
\* not the derived one.
UnderivedVault(a) ==
    \/ a.vault_authority # find_program_address(a.seller, a.listing_id).address
    \/ a.vault_token_account #
           get_associated_token_address(
               find_program_address(a.seller, a.listing_id).address, a.base_mint)

\* Such an initialization aborts and writes nothing.
UnderivedVaultRejected ==
    \A a \in InitCalls :
        UnderivedVault(a) =>
            LET r == initialize_listing(listing, data_len, tokens, a)
            IN  r.err # "Ok" /\ r.listing = listing /\ r.tokens = tokens

\* Every stored vault_authority is the address derived from the stored
\* seller and listing_id, with the stored bump.
StoredVaultDerived ==
    (listing # ZeroListing) =>
        LET pda == find_program_address(listing.seller, listing.listing_id)
        IN  /\ listing.vault_authority = pda.address
            /\ listing.vault_bump = pda.bump

\* A failed initialization leaves the record and the token accounts alone.
InitFailureStep ==
    (last'.op = "InitializeListing" /\ last'.err # "Ok") =>
        (listing' = listing /\ tokens' = tokens)

\* C8: InitializeListing aborts, writing nothing, when the supplied custody
\* address is not the one derived for (seller, listing_id) or the supplied
\* vault token address is not the one derived for (custody address, base
\* mint); so every stored vault_authority is the derivation of the stored
\* seller and listing_id.
C8_VaultDerivation ==
    /\ [](UnderivedVaultRejected /\ StoredVaultDerived)
    /\ [][InitFailureStep]_vars

\* An initialization has just been rejected for its custody address.
C8_Witness ==
    /\ last.op = "InitializeListing"
    /\ last.err = "IncorrectAuthority"
    /\ listing = ZeroListing

\* A successful deposit: from AwaitingDeposit, signed by the listing's
\* seller, moving quantity from the seller's token account to the vault's,
\* leaving the record with status Active and nothing else changed.
DepositStep ==
    (last'.op = "DepositTokens" /\ last'.err = "Ok") =>
        LET a == last'.args
            source == a.seller_token_account
            destination == a.vault_token_account
        IN  /\ status(listing) = AwaitingDeposit
            /\ a.is_signer
            /\ a.seller = listing.seller
            /\ source # destination
            /\ tokens[source].owner = listing.seller
            /\ tokens[destination].owner = listing.vault_authority
            /\ Le(listing.quantity, tokens[source].amount)
            /\ tokens' =
                   [k \in DOMAIN tokens |->
                       IF k = source
                       THEN [tokens[k] EXCEPT
                                !.amount = wrapping_sub(@, listing.quantity)]
                       ELSE IF k = destination
                       THEN [tokens[k] EXCEPT
                                !.amount = wrapping_add(@, listing.quantity)]
                       ELSE tokens[k]]
            /\ Le(tokens[destination].amount, tokens'[destination].amount)
            /\ listing' = [listing EXCEPT !.status = Active]
            /\ status(listing') = Active
            /\ listing'.filled = U64(0)

\* C9: a successful DepositTokens happens only from AwaitingDeposit with the
\* listing's seller as signer; it moves exactly quantity tokens from the
\* seller's token account to the vault's token account, sets the status to
\* Active, and filled stays 0.
C9_Deposit == [][DepositStep]_vars

\* The seller's deposit has just funded the vault.
C9_Witness ==
    /\ DepositOk
    /\ status(listing) = Active
    /\ tokens[VaultTokenAccount].amount = listing.quantity
    /\ ~IsZero(listing.quantity)

\* A deposit reaches the status check: it is signed and the record decodes.
DepositReachesStatus(a) ==
    /\ a.is_signer
    /\ deserialize_listing(a.listing_owner, data_len) = "Ok"

\* Both token accounts of a deposit unpack.
DepositTokenAccounts(a) ==
    /\ IsTokenAccount(tokens, a.seller_token_account)
    /\ IsTokenAccount(tokens, a.vault_token_account)

\* The causes of a deposit's failure.
WrongStatus == status(listing) # AwaitingDeposit

WrongAuthority(a) ==
    \/ a.seller # listing.seller
    \/ a.vault_authority # listing.vault_authority
    \/ /\ IsTokenAccount(tokens, a.seller_token_account)
       /\ tokens[a.seller_token_account].owner # a.seller
    \/ /\ IsTokenAccount(tokens, a.vault_token_account)
       /\ tokens[a.vault_token_account].owner # a.vault_authority

WrongMint(a) ==
    \/ /\ IsTokenAccount(tokens, a.seller_token_account)
       /\ tokens[a.seller_token_account].mint # listing.base_mint
    \/ /\ IsTokenAccount(tokens, a.vault_token_account)
       /\ tokens[a.vault_token_account].mint # listing.base_mint

ShortBalance(a) ==
    /\ IsTokenAccount(tokens, a.seller_token_account)
    /\ Lt(tokens[a.seller_token_account].amount, listing.quantity)

\* Each of the four errors has its cause, each cause makes the deposit fail,
\* and a cause that is the only one (in a signed call on a decodable record
\* with token accounts) yields its error; the status is checked first.
DepositRejected ==
    \A a \in DepositCalls :
        LET r == deposit_tokens(listing, data_len, tokens, a)
            reached == DepositReachesStatus(a) /\ DepositTokenAccounts(a)
        IN  /\ (r.err = "InvalidListingStatus") => WrongStatus
            /\ (r.err = "IncorrectAuthority") => WrongAuthority(a)
            /\ (r.err = "MintMismatch") => WrongMint(a)
            /\ (r.err = "InsufficientFunds") => ShortBalance(a)
            /\ (WrongStatus \/ WrongAuthority(a) \/ WrongMint(a) \/ ShortBalance(a))
                   => (r.err # "Ok")
            /\ (DepositReachesStatus(a) /\ WrongStatus)
                   => (r.err = "InvalidListingStatus")
            /\ (reached /\ ~WrongStatus /\ WrongAuthority(a) /\ ~WrongMint(a))
                   => (r.err = "IncorrectAuthority")
            /\ (reached /\ ~WrongStatus /\ ~WrongAuthority(a) /\ WrongMint(a))
                   => (r.err = "MintMismatch")
            /\ (reached /\ ~WrongStatus /\ ~WrongAuthority(a) /\ ~WrongMint(a)
                   /\ ShortBalance(a))
                   => (r.err = "InsufficientFunds")
            /\ (r.err # "Ok") => (r.listing = listing)

\* A failed deposit leaves the record, its status and every balance alone.
DepositFailureStep ==
    (last'.op = "DepositTokens" /\ last'.err # "Ok") =>
        (listing' = listing /\ tokens' = tokens)

\* C10: DepositTokens fails with InvalidListingStatus when the status is
\* not AwaitingDeposit (so a second deposit is impossible), with
\* IncorrectAuthority when the caller is not the seller or a token account's
\* owner or the custody address is wrong, with MintMismatch on a wrong mint,
\* and with InsufficientFunds when the seller's balance is below quantity;
\* on every failure the status and the balances are unchanged.
C10_DepositFailures ==
    /\ []DepositRejected
    /\ [][DepositFailureStep]_vars

\* A second deposit has just been rejected on a funded listing.
C10_Witness ==
    /\ last.op = "DepositTokens"
    /\ last.err = "InvalidListingStatus"
    /\ status(listing) = Active
    /\ tokens[VaultTokenAccount].amount = listing.quantity

\* A purchase reaches the status check: its quantity is non-zero, it is
\* signed and the record decodes.
PurchaseReachesStatus(a) ==
    /\ ~IsZero(a.quantity)
    /\ a.is_signer
    /\ deserialize_listing(a.listing_owner, data_len) = "Ok"

\* Outside Active every purchase fails and writes nothing, with
\* InvalidListingStatus when the status check is reached; and that error
\* has no other cause.
PurchaseOnlyActive ==
    \A a \in PurchaseCalls :
        LET r == purchase_tokens(listing, data_len, tokens, a)
        IN  /\ (r.err = "InvalidListingStatus") => (status(listing) # Active)
            /\ (status(listing) # Active) =>
                   /\ r.err # "Ok"
                   /\ r.listing = listing
                   /\ r.tokens = tokens
                   /\ PurchaseReachesStatus(a) => (r.err = "InvalidListingStatus")

\* A purchase succeeds only from Active; from any other status it moves no
\* tokens and leaves the record alone.
PurchaseStatusStep ==
    (last'.op = "Purchase") =>
        /\ (last'.err = "Ok") => (status(listing) = Active)
        /\ (status(listing) # Active) => (tokens' = tokens /\ listing' = listing)

\* C11: Purchase succeeds only when the status is Active; against a listing
\* in AwaitingDeposit, Completed or Cancelled it fails, with
\* InvalidListingStatus (when the status check is reached), and moves no
\* tokens.
C11_PurchaseOnlyActive ==
    /\ []PurchaseOnlyActive
    /\ [][PurchaseStatusStep]_vars

\* A purchase has just been rejected on a listing that awaits its deposit.
C11_Witness ==
    /\ last.op = "Purchase"
    /\ last.err = "InvalidListingStatus"
    /\ listing # ZeroListing
    /\ status(listing) = AwaitingDeposit

\* A purchase reaches the quantity checks: the listing is Active and the
\* supplied custody address is the stored one.
PurchaseReachesQuantity(a) ==
    /\ PurchaseReachesStatus(a)
    /\ status(listing) = Active
    /\ a.vault_authority = listing.vault_authority

\* quantity - filled of the stored listing (filled <= quantity by C1).
Unsold == wrapping_sub(listing.quantity, listing.filled)

\* A purchase of more than what remains fails and writes nothing, with
\* InsufficientQuantity when the quantity checks are reached; and that
\* error has no other cause.
ExcessRejected ==
    \A a \in PurchaseCalls :
        LET r == purchase_tokens(listing, data_len, tokens, a)
        IN  /\ (r.err = "InsufficientQuantity") => Lt(Unsold, a.quantity)
            /\ Lt(Unsold, a.quantity) =>
                   /\ r.err # "Ok"
                   /\ r.listing = listing
                   /\ r.tokens = tokens
                   /\ PurchaseReachesQuantity(a) =>
                          (r.err = "InsufficientQuantity")

\* A purchase rejected with InsufficientQuantity changes nothing, and a
\* successful one takes no more than what remained.
ExcessStep ==
    (last'.op = "Purchase") =>
        /\ (last'.err = "InsufficientQuantity") =>
               (listing' = listing /\ tokens' = tokens)
        /\ (last'.err = "Ok") => Le(last'.args.quantity, Unsold)

\* C12: a Purchase whose quantity exceeds remaining = quantity - filled
\* fails, with InsufficientQuantity (when the quantity checks are reached),
\* leaving filled, status and all token balances unchanged.
C12_InsufficientQuantity ==
    /\ []ExcessRejected
    /\ [][ExcessStep]_vars

\* After a partial fill, a purchase of more than the rest has been rejected.
C12_Witness ==
    /\ last.op = "Purchase"
    /\ last.err = "InsufficientQuantity"
    /\ status(listing) = Active
    /\ Lt(U64(0), listing.filled)
    /\ Lt(listing.filled, listing.quantity)

\* Bit 0 of the stored flags is clear: partial fills are not allowed.
WholeOnly == listing.flags % 2 = 0

\* On a whole-only listing a purchase of less than what remains fails and
\* writes nothing, with PartialFillDisabled when the quantity checks are
\* reached; and that error has no other cause.
PartialRejected ==
    \A a \in PurchaseCalls :
        LET r == purchase_tokens(listing, data_len, tokens, a)
        IN  /\ (r.err = "PartialFillDisabled") =>
                   (WholeOnly /\ Lt(a.quantity, Unsold))
            /\ (WholeOnly /\ Lt(a.quantity, Unsold)) =>
                   /\ r.err # "Ok"
                   /\ r.listing = listing
                   /\ r.tokens = tokens
                   /\ PurchaseReachesQuantity(a) =>
                          (r.err = "PartialFillDisabled")

\* A whole-only listing that is not finished has nothing filled.
WholeOnlyUnfilled ==
    (WholeOnly /\ status(listing) \in {AwaitingDeposit, Active}) =>
        (listing.filled = U64(0))

\* A whole-only listing becomes Completed by one purchase of its whole
\* quantity; a purchase rejected with PartialFillDisabled changes nothing.
WholeOnlyStep ==
    /\ (WholeOnly /\ status(listing) # Completed /\ status(listing') = Completed) =>
           /\ last'.op = "Purchase"
           /\ last'.err = "Ok"
           /\ last'.args.quantity = listing.quantity
           /\ listing.filled = U64(0)
           /\ listing'.filled = listing.quantity
    /\ (last'.op = "Purchase" /\ last'.err = "PartialFillDisabled") =>
           (listing' = listing /\ tokens' = tokens)

\* C13: on a listing with allow_partial = false a Purchase of fewer units
\* than the full remaining quantity fails, with PartialFillDisabled (when
\* the quantity checks are reached), and the listing and all balances are
\* unchanged; such a listing reaches Completed only by one purchase of
\* exactly the full quantity.
C13_PartialFillDisabled ==
    /\ [](PartialRejected /\ WholeOnlyUnfilled)
    /\ [][WholeOnlyStep]_vars

\* A partial purchase has just been rejected on a funded whole-only listing.
C13_Witness ==
    /\ last.op = "Purchase"
    /\ last.err = "PartialFillDisabled"
    /\ WholeOnly
    /\ status(listing) = Active
    /\ tokens[VaultTokenAccount].amount = listing.quantity

\* 10^d as a 64-bit value, for the decimals of the mints at hand.
TenTo(d) == to_le_bytes(10 ^ d, 8)

\* amount = floor(q * price_per_token / 10^base_decimals) of the stored
\* listing: amount * 10^d <= q * price < amount * 10^d + 10^d.
IsQuoteOf(amount, q) ==
    LET product == widening_mul(q, listing.price_per_token)
        scaled == widening_mul(amount, TenTo(listing.base_decimals))
        next == wrapping_add(scaled, u128_from(TenTo(listing.base_decimals)))
    IN  Le(scaled, product) /\ Lt(product, next) /\ Le(scaled, next)

\* The quote amounts a buyer can hold: up to the whole supply.
QuoteAmounts == {U64(n) : n \in 0..(SellerQuote + BuyerQuote)}

\* The token accounts after amount has left source and arrived at
\* destination (one account being both keeps its balance).
Moved(toks, source, destination, amount) ==
    [k \in DOMAIN toks |->
        IF k = source /\ k # destination
        THEN [toks[k] EXCEPT !.amount = wrapping_sub(@, amount)]
        ELSE IF k = destination /\ k # source
        THEN [toks[k] EXCEPT !.amount = wrapping_add(@, amount)]
        ELSE toks[k]]

\* A successful purchase of q: the quote leg from the buyer's to the
\* seller's quote account, the base leg of q from the vault to the buyer's
\* base account, filled + q, and Completed exactly when filled reaches
\* quantity.
PurchaseStep ==
    (last'.op = "Purchase" /\ last'.err = "Ok") =>
        LET a == last'.args
            q == a.quantity
            filled == wrapping_add(listing.filled, q)
        IN  /\ tokens[a.buyer_quote_account].owner = a.buyer
            /\ tokens[a.seller_quote_account].owner = listing.seller
            /\ tokens[a.buyer_base_account].owner = a.buyer
            /\ tokens[a.vault_token_account].owner = listing.vault_authority
            /\ a.vault_token_account # a.buyer_base_account
            /\ \E amount \in QuoteAmounts :
                   /\ IsQuoteOf(amount, q)
                   /\ Le(amount, tokens[a.buyer_quote_account].amount)
                   /\ Le(q, tokens[a.vault_token_account].amount)
                   /\ tokens' =
                          Moved(Moved(tokens, a.buyer_quote_account,
                                      a.seller_quote_account, amount),
                                a.vault_token_account, a.buyer_base_account, q)
            /\ Lt(listing.filled, filled)
            /\ listing'.filled = filled
            /\ status(listing') =
                   IF Le(listing.quantity, filled) THEN Completed ELSE Active
            /\ listing' = [listing EXCEPT !.filled = filled,
                                          !.status = status(listing')]

\* C14: a successful Purchase(q) performs both legs together: the buyer's
\* quote account decreases and the seller's increases by
\* floor(q * price_per_token / 10^base_decimals), the vault decreases and
\* the buyer's base account increases by exactly q, filled increases by
\* exactly q, and the status becomes Completed if and only if the new
\* filled >= quantity, and stays Active otherwise.  (When the seller buys
\* from the own listing the quote leg leaves and enters one account.)
C14_PurchaseLegs == [][PurchaseStep]_vars

\* Bob has bought 3 of 4 units at price 5 with one decimal: 15/10 truncates
\* to 1 quote unit.
C14_Witness ==
    /\ PurchaseOk
    /\ last.args.buyer = Bob
    /\ last.args.quantity = U64(3)
    /\ listing.price_per_token = U64(5)
    /\ listing.base_decimals = 1
    /\ listing.filled = U64(3)
    /\ status(listing) = Active
    /\ tokens[get_associated_token_address(Bob, QuoteMint)].amount = U64(BuyerQuote - 1)

\* A purchase reaches the quote computation: its quantity passes the
\* quantity checks.
PurchaseReachesQuote(a) ==
    /\ PurchaseReachesQuantity(a)
    /\ Le(a.quantity, Unsold)
    /\ WholeOnly => (a.quantity = Unsold)

\* The quote amount of a purchase is zero.
ZeroQuote(a) == IsQuoteOf(U64(0), a.quantity)

\* A purchase whose quote amount is zero fails and writes nothing, with
\* AmountOverflow when the quote computation is reached.
ZeroQuoteRejected ==
    \A a \in PurchaseCalls :
        ZeroQuote(a) =>
            LET r == purchase_tokens(listing, data_len, tokens, a)
            IN  /\ r.err # "Ok"
                /\ r.listing = listing
                /\ r.tokens = tokens
                /\ PurchaseReachesQuote(a) => (r.err = "AmountOverflow")

\* A purchase that succeeds, and any purchase after which the vault holds
\* less, has a quote amount of at least one unit.
PaidStep ==
    (/\ last'.op = "Purchase"
     /\ \/ last'.err = "Ok"
        \/ Lt(tokens'[VaultTokenAccount].amount, tokens[VaultTokenAccount].amount)) =>
        /\ last'.err = "Ok"
        /\ ~IsQuoteOf(U64(0), last'.args.quantity)
        /\ \E amount \in QuoteAmounts \ {U64(0)} :
               IsQuoteOf(amount, last'.args.quantity)

\* C15: a Purchase whose quote amount
\* floor(quantity * price_per_token / 10^base_decimals) is zero fails, with
\* AmountOverflow (when the quote computation is reached), so no base
\* tokens ever leave the vault to a buyer for a zero payment.
C15_ZeroQuote ==
    /\ []ZeroQuoteRejected
    /\ [][PaidStep]_vars

\* A purchase has just been rejected on a funded listing whose price of 1
\* with one decimal makes every quote amount zero.
C15_Witness ==
    /\ last.op = "Purchase"
    /\ last.err = "AmountOverflow"
    /\ status(listing) = Active
    /\ listing.price_per_token = U64(1)
    /\ listing.base_decimals = 1
    /\ tokens[VaultTokenAccount].amount = listing.quantity

\* A cancel is made by the listing's seller: it is signed, the record
\* decodes and the signer is the stored seller.
SellerCancels(a) ==
    /\ a.is_signer
    /\ deserialize_listing(a.listing_owner, data_len) = "Ok"
    /\ a.seller = listing.seller

\* In AwaitingDeposit the seller's cancel succeeds whatever the other
\* accounts are, marks the listing Cancelled and moves nothing.
CancelUnfunded ==
    (status(listing) = AwaitingDeposit) =>
        \A a \in CancelCalls :
            SellerCancels(a) =>
                LET r == cancel_listing(listing, data_len, tokens, a)
                IN  /\ r.err = "Ok"
                    /\ r.listing = [listing EXCEPT !.status = Cancelled]
                    /\ r.tokens = tokens

\* A successful cancel from AwaitingDeposit: by the seller, to Cancelled,
\* no balance changed.
CancelUnfundedStep ==
    (/\ last'.op = "CancelListing"
     /\ last'.err = "Ok"
     /\ status(listing) = AwaitingDeposit) =>
        /\ last'.args.is_signer
        /\ last'.args.seller = listing.seller
        /\ status(listing') = Cancelled
        /\ listing' = [listing EXCEPT !.status = Cancelled]
        /\ tokens' = tokens

\* C16: CancelListing by the seller on a listing in AwaitingDeposit sets
\* the status to Cancelled and moves no tokens: no balance of any token
\* account changes.
C16_CancelUnfunded ==
    /\ []CancelUnfunded
    /\ [][CancelUnfundedStep]_vars

\* A listing has been cancelled with nothing filled and every balance as it
\* was at the start.
C16_Witness ==
    /\ CancelOk
    /\ status(listing) = Cancelled
    /\ listing.filled = U64(0)
    /\ tokens = InitialTokens
    /\ last.args.vault_token_account # VaultTokenAccount

\* A successful cancel from Active: what remains leaves an account of the
\* stored custody address for an account of the seller, and the listing is
\* Cancelled with filled as it was.
CancelFundedStep ==
    (/\ last'.op = "CancelListing"
     /\ last'.err = "Ok"
     /\ status(listing) = Active) =>
        /\ last'.args.seller = listing.seller
        /\ listing' = [listing EXCEPT !.status = Cancelled]
        /\ status(listing') = Cancelled
        /\ listing'.filled = listing.filled
        /\ \E source, destination \in DOMAIN tokens :
               /\ tokens[source].owner = listing.vault_authority
               /\ tokens[destination].owner = listing.seller
               /\ tokens[source].mint = listing.base_mint
               /\ tokens[destination].mint = listing.base_mint
               /\ Le(Unsold, tokens[source].amount)
               /\ tokens' = Moved(tokens, source, destination, Unsold)

\* C17: CancelListing by the seller on an Active listing moves exactly
\* quantity - filled base units from the vault to the seller's base account
\* and always results in status Cancelled, with filled unchanged.
C17_CancelFunded == [][CancelFundedStep]_vars

\* On a Completed or Cancelled listing every cancel fails and writes
\* nothing, with InvalidListingStatus when the seller makes it; and that
\* error has no other cause.
CancelFinished ==
    \A a \in CancelCalls :
        LET r == cancel_listing(listing, data_len, tokens, a)
        IN  /\ (r.err = "InvalidListingStatus") => (status(listing) \in Terminal)
            /\ (status(listing) \in Terminal) =>
                   /\ r.err # "Ok"
                   /\ r.listing = listing
                   /\ r.tokens = tokens
                   /\ SellerCancels(a) => (r.err = "InvalidListingStatus")

\* A cancel on a Completed or Cancelled listing changes neither the listing
\* nor any balance.
CancelFinishedStep ==
    (last'.op = "CancelListing" /\ status(listing) \in Terminal) =>
        (last'.err # "Ok" /\ listing' = listing /\ tokens' = tokens)

\* C18: CancelListing on a listing whose status is Completed or Cancelled
\* fails, with InvalidListingStatus (when the seller makes it), and changes
\* neither the listing nor any balance: a listing cannot be cancelled twice
\* and the seller cannot withdraw after a full sale.
C18_CancelFinished ==
    /\ []CancelFinished
    /\ [][CancelFinishedStep]_vars

\* A second cancel has just been rejected on a cancelled listing.
C18_Witness ==
    /\ last.op = "CancelListing"
    /\ last.err = "InvalidListingStatus"
    /\ status(listing) = Cancelled

\* A call is signed by someone other than the stored seller, on a record
\* that decodes.
SignedByOther(a) ==
    /\ a.is_signer
    /\ deserialize_listing(a.listing_owner, data_len) = "Ok"
    /\ a.seller # listing.seller

\* An unsigned cancel or deposit fails with MissingRequiredSignature and
\* writes nothing.
UnsignedRejected ==
    /\ \A a \in CancelCalls :
           (~a.is_signer) =>
               cancel_listing(listing, data_len, tokens, a) =
                   Result("MissingRequiredSignature", listing, tokens)
    /\ \A a \in DepositCalls :
           (~a.is_signer) =>
               deposit_tokens(listing, data_len, tokens, a) =
                   Result("MissingRequiredSignature", listing, tokens)

\* A cancel signed by someone other than the seller fails with
\* IncorrectAuthority in every status and writes nothing.
OtherCancelRejected ==
    \A a \in CancelCalls :
        SignedByOther(a) =>
            cancel_listing(listing, data_len, tokens, a) =
                Result("IncorrectAuthority", listing, tokens)

\* A deposit signed by someone other than the seller fails with
\* IncorrectAuthority in every status and writes nothing.
OtherDepositRejected ==
    \A a \in DepositCalls :
        SignedByOther(a) =>
            deposit_tokens(listing, data_len, tokens, a) =
                Result("IncorrectAuthority", listing, tokens)

\* A deposit signed by someone other than the seller fails and writes
\* nothing: with IncorrectAuthority in AwaitingDeposit, and with
\* InvalidListingStatus in every other status, where the status check comes
\* first.
OtherDepositRejectedByStatus ==
    \A a \in DepositCalls :
        SignedByOther(a) =>
            deposit_tokens(listing, data_len, tokens, a) =
                Result(IF status(listing) = AwaitingDeposit
                       THEN "IncorrectAuthority" ELSE "InvalidListingStatus",
                       listing, tokens)

\* A cancel or deposit succeeds only when the stored seller signed it, and
\* one that fails changes nothing.
SellerOnlyStep ==
    (last'.op \in {"CancelListing", "DepositTokens"}) =>
        /\ (last'.err = "Ok") =>
               (last'.args.is_signer /\ last'.args.seller = listing.seller)
        /\ (last'.err # "Ok") => (listing' = listing /\ tokens' = tokens)

\* C19 as stated: CancelListing and DepositTokens by a non-signer fail with
\* MissingRequiredSignature, and by a signer other than listing.seller with
\* IncorrectAuthority, in every listing status, with no state change.
C19_SellerOnly_Stated ==
    /\ [](UnsignedRejected /\ OtherCancelRejected /\ OtherDepositRejected)
    /\ [][SellerOnlyStep]_vars

\* C19, amended: only the listing's seller, as a verified signer, can cancel
\* or deposit: by a non-signer both fail with MissingRequiredSignature; by a
\* signer other than listing.seller CancelListing fails with
\* IncorrectAuthority in every status, and DepositTokens fails with
\* IncorrectAuthority in AwaitingDeposit and with InvalidListingStatus in
\* Active, Completed and Cancelled; no failure changes the state.
C19_SellerOnly ==
    /\ [](UnsignedRejected /\ OtherCancelRejected /\ OtherDepositRejectedByStatus)
    /\ [][SellerOnlyStep]_vars

\* A cancel by someone other than the seller has just been rejected on a
\* completed listing.
C19_Witness ==
    /\ last.op = "CancelListing"
    /\ last.err = "IncorrectAuthority"
    /\ status(listing) = Completed

\* The stored custody address is the re-derivation from the stored seller,
\* listing_id and bump.
StoredVaultRederived ==
    (listing # ZeroListing) =>
        LET derived == create_program_address(listing.seller, listing.listing_id,
                                              listing.vault_bump)
        IN  derived.some /\ derived.val = listing.vault_authority

\* A purchase from Active with a custody address other than the stored one
\* aborts with IncorrectAuthority, nothing transferred.
PurchaseChecksCustody ==
    \A a \in PurchaseCalls :
        (/\ PurchaseReachesStatus(a)
         /\ status(listing) = Active
         /\ a.vault_authority # listing.vault_authority) =>
            purchase_tokens(listing, data_len, tokens, a) =
                Result("IncorrectAuthority", listing, tokens)

\* A cancel from Active with a custody address other than the stored one
\* aborts with IncorrectAuthority, nothing transferred.
CancelChecksCustody ==
    \A a \in CancelCalls :
        (/\ SellerCancels(a)
         /\ status(listing) = Active
         /\ a.vault_authority # listing.vault_authority) =>
            cancel_listing(listing, data_len, tokens, a) =
                Result("IncorrectAuthority", listing, tokens)

\* C20: in every operation that authorizes a transfer out of the vault
\* (Purchase, and CancelListing from Active), if the supplied custody
\* address is not the listing's stored vault_authority (the re-derivation
\* from seller, listing_id and stored bump), the operation aborts with
\* IncorrectAuthority before any transfer is attempted.
C20_CustodyChecked ==
    StoredVaultRederived /\ PurchaseChecksCustody /\ CancelChecksCustody

(***************************************************************************)
(* Atomicity, ordering and frame properties.                               *)
(***************************************************************************)

\* An invocation that returned an error left the listing and every token
\* balance as they were.
AllOrNothingStep ==
    (last'.err # "Ok") => (listing' = listing /\ tokens' = tokens)

\* A purchase whose quote leg has moved the payment and whose base leg the
\* token program then refuses.
HalfPaid(a) ==
    LET r == purchase_tokens(listing, data_len, tokens, a)
        quote == quote_amount(a.quantity, listing.price_per_token, listing.base_decimals)
    IN  /\ r.err = "TokenAccountFrozen"
        /\ quote.some
        /\ a.buyer_quote_account # a.seller_quote_account
        /\ r.tokens[a.seller_quote_account].amount =
               wrapping_add(tokens[a.seller_quote_account].amount, quote.val)
        /\ r.tokens[a.vault_token_account] = tokens[a.vault_token_account]

\* A handler that returns the error of r has written nothing: the record is
\* as it was (the handlers write it as their last step) and no token moved.
WroteNothing(r) ==
    (r.err # "Ok") => (r.listing = listing /\ r.tokens = tokens)

\* A purchase that returns an error has not written the record, so filled
\* and status are as they were, and has moved no token, unless its base leg
\* failed after its quote leg: then the payment, and nothing else, has moved
\* when the handler returns.
PurchaseWroteNoRecord(a) ==
    LET r == purchase_tokens(listing, data_len, tokens, a)
    IN  (r.err # "Ok") =>
            /\ r.listing = listing
            /\ (r.tokens # tokens) =>
                   \E amount \in QuoteAmounts :
                       /\ IsQuoteOf(amount, a.quantity)
                       /\ r.tokens = Moved(tokens, a.buyer_quote_account,
                                           a.seller_quote_account, amount)

\* What the handlers themselves leave behind when they fail, before the host
\* undoes it.
FailedHandlers ==
    /\ \A a \in InitCalls : WroteNothing(initialize_listing(listing, data_len, tokens, a))
    /\ \A a \in DepositCalls : WroteNothing(deposit_tokens(listing, data_len, tokens, a))
    /\ \A a \in CancelCalls : WroteNothing(cancel_listing(listing, data_len, tokens, a))
    /\ \A a \in PurchaseCalls : PurchaseWroteNoRecord(a)

\* C21: every invocation is all-or-nothing: when a handler returns an error,
\* the stored listing and every token balance equal their values before the
\* invocation, also when a purchase's quote transfer had succeeded before
\* its base transfer failed (the payment is undone, filled and status stay).
\* The handlers' part is that a failing handler has not written the record
\* and has moved no token, but for the payment of a purchase whose base leg
\* fails; the undoing of that payment is the host's (commit, taken from the
\* specification's description of the host).
C21_AllOrNothing ==
    /\ []FailedHandlers
    /\ [][AllOrNothingStep]_vars

C21_Witness ==
    /\ last.op = "Purchase"
    /\ last.err = "TokenAccountFrozen"
    /\ status(listing) = Active
    /\ tokens[get_associated_token_address(Bob, QuoteMint)].amount = U64(BuyerQuote)
    /\ \E a \in PurchaseCalls : HalfPaid(a)

\* A successful purchase on a partial-allowed listing adds its quantity to
\* filled, and leaves the listing Completed when filled has reached quantity
\* and Active otherwise.
CompletionStep ==
    (PurchaseOk' /\ ~WholeOnly) =>
        /\ listing'.filled = wrapping_add(listing.filled, last'.args.quantity)
        /\ status(listing') =
               IF listing'.filled = listing.quantity THEN Completed ELSE Active

\* C22: on a partial-allowed listing a sequence of purchases makes status
\* Completed exactly at the purchase after which the cumulative filled equals
\* quantity and never before: a purchase that leaves filled below quantity
\* leaves status Active, the purchase that brings filled to quantity makes it
\* Completed (for quantity 4: a purchase of 2 leaves Active, a following
\* purchase of 2 makes Completed).
C22_CompletedAtFill == [][CompletionStep]_vars

\* The listing of quantity 4 was bought in a purchase of 2 and then another.
C22_Witness ==
    /\ PurchaseOk
    /\ ~WholeOnly
    /\ listing.quantity = U64(4)
    /\ last.args.quantity = U64(2)
    /\ listing.filled = listing.quantity
    /\ status(listing) = Completed

\* Invocations run one at a time, each to completion: the state after one
\* invocation is the state the next one starts from.  No purchase succeeds
\* after the purchase a1 when the two ask for more than is unsold.
NotOversold(a1) ==
    LET r1 == purchase_tokens(listing, data_len, tokens, a1)
    IN  (r1.err = "Ok") =>
            \A a2 \in PurchaseCalls :
                LET asked == checked_add(a1.quantity, a2.quantity)
                IN  (~asked.some \/ Lt(Unsold, asked.val)) =>
                        purchase_tokens(r1.listing, data_len, r1.tokens, a2).err # "Ok"

\* No purchase succeeds after the cancel c.
NotSoldAfterCancel(c) ==
    LET rc == cancel_listing(listing, data_len, tokens, c)
    IN  (rc.err = "Ok") =>
            \A p \in PurchaseCalls :
                purchase_tokens(rc.listing, data_len, rc.tokens, p).err # "Ok"

\* The purchase p and a cancel after it take no more out of the vault than
\* was unsold before them.
NotRefundedAfterSale(p) ==
    LET rp == purchase_tokens(listing, data_len, tokens, p)
    IN  (rp.err = "Ok") =>
            \A c \in CancelCalls :
                LET rc == cancel_listing(rp.listing, data_len, rp.tokens, c)
                IN  (rc.err = "Ok") =>
                        Le(wrapping_sub(tokens[VaultTokenAccount].amount,
                                        rc.tokens[VaultTokenAccount].amount),
                           Unsold)

\* Two buyers can each buy now, and ask for more than is unsold together.
Contended ==
    \E a1, a2 \in PurchaseCalls :
        /\ a1.buyer # a2.buyer
        /\ purchase_tokens(listing, data_len, tokens, a1).err = "Ok"
        /\ purchase_tokens(listing, data_len, tokens, a2).err = "Ok"
        /\ Lt(Unsold, wrapping_add(a1.quantity, a2.quantity))

\* C23: invocations by several buyers and the seller against one listing run
\* as serialized atomic steps; in every order, two purchases whose quantities
\* sum to more than the remaining amount do not both succeed, and a purchase
\* and a cancel do not both move the same tokens out of the vault (no
\* purchase succeeds after a cancel, and a purchase followed by a cancel
\* takes no more than the unsold amount out of the vault).
C23_Serialized ==
    /\ \A a1 \in PurchaseCalls : NotOversold(a1)
    /\ \A c \in CancelCalls : NotSoldAfterCancel(c)
    /\ \A p \in PurchaseCalls : NotRefundedAfterSale(p)

\* After a partial fill, two buyers and the seller contend for the rest.
C23_Witness ==
    /\ PurchaseOk
    /\ status(listing) = Active
    /\ Contended
    /\ \E p \in PurchaseCalls : \E c \in CancelCalls :
           /\ purchase_tokens(listing, data_len, tokens, p).err = "Ok"
           /\ cancel_listing(listing, data_len, tokens, c).err = "Ok"
           /\ tokens[VaultTokenAccount].amount #
                  cancel_listing(listing, data_len, tokens, c).tokens[VaultTokenAccount].amount

\* The fields of a listing that creation sets.
Terms(l) ==
    <<l.seller, l.base_mint, l.quote_mint, l.vault_authority, l.vault_bump,
      l.listing_id, l.price_per_token, l.quantity, l.flags, l.base_decimals,
      l.fee_payment_method, l.fee_amount_paid, l.x402_payload_hash>>

\* An invocation on a created listing keeps its terms, and keeps filled
\* unless it is a purchase.
FrameStep ==
    (listing # ZeroListing
         \/ last'.op \in {"DepositTokens", "Purchase", "CancelListing"}) =>
        /\ Terms(listing') = Terms(listing)
        /\ (last'.op # "Purchase" => listing'.filled = listing.filled)

\* C24: after creation, DepositTokens, Purchase and CancelListing never
\* change the listing's seller, base_mint, quote_mint, vault_authority,
\* vault_bump, listing_id, price_per_token, quantity, flags, base_decimals,
\* fee_payment_method, fee_amount_paid or x402_payload_hash; only status and
\* filled are ever mutated, filled only by Purchase.
C24_Frame == [][FrameStep]_vars

\* A listing created, funded, partly sold and cancelled: status and filled
\* have changed, the terms have not.
C24_Witness ==
    /\ CancelOk
    /\ status(listing) = Cancelled
    /\ Lt(U64(0), listing.filled)
    /\ \E c \in InitMain :
           Terms(listing) = Terms(initialize_listing(ZeroListing, LEN, InitialTokens, c).listing)

\* An invocation takes out of the vault no more than is unsold when it is
\* made: a purchase its quantity, a cancel what is left.
OutflowStep ==
    /\ Le(outflow(tokens, tokens'), Unsold)
    /\ PurchaseOk' =>
           /\ Le(last'.args.quantity, Unsold)
           /\ (last'.args.vault_token_account # last'.args.buyer_base_account =>
                   outflow(tokens, tokens') = last'.args.quantity)
    /\ outflow(tokens, tokens') # U64(0) => (PurchaseOk' \/ CancelOk')

\* C25: every transfer the program authorizes out of the vault (to a buyer
\* in Purchase, to the seller in CancelListing) has an amount no greater
\* than remaining = quantity - filled at the time of the invocation, and
\* over the whole life of a listing the total moved out of the vault never
\* exceeds the listing's quantity.
C25_VaultOutflow ==
    /\ [](Le(withdrawn, listing.quantity))
    /\ [][OutflowStep]_vars

\* A purchase took part of the vault and a cancel the rest: all of quantity
\* has left the vault.
C25_Witness ==
    /\ CancelOk
    /\ Lt(U64(0), listing.filled)
    /\ Lt(listing.filled, listing.quantity)
    /\ withdrawn = listing.quantity
    /\ tokens[VaultTokenAccount].amount = U64(0)

(***************************************************************************)
(* The X402 proof.                                                         *)
(***************************************************************************)

\* The initialization c at other prices and quantities, with fees from 0 to 8.
FeeVariants(c) ==
    {[c EXCEPT !.price_per_token = U64(p), !.quantity = U64(q)] :
         p \in {5, 100, 200}, q \in {1, 4}}

\* An initialization that pays by X402 with a non-empty payload.
PaysByProof(c) ==
    c.fee_payment_method = X402 /\ c.x402_payload.some /\ c.x402_payload.val # ""

\* Where the initialization c1 succeeds, the same initialization at any
\* other price and quantity succeeds with the same stored digest, whatever
\* fee it owes.
ProofIgnoresFee(c1) ==
    LET r1 == initialize_listing(listing, data_len, tokens, c1)
    IN  (PaysByProof(c1) /\ r1.err = "Ok") =>
            \A c2 \in FeeVariants(c1) :
                LET r2 == initialize_listing(listing, data_len, tokens, c2)
                IN  /\ r2.err = "Ok"
                    /\ r2.listing.x402_payload_hash = r1.listing.x402_payload_hash
                    /\ r2.listing.fee_amount_paid =
                           DivSmall(SubSeq(widening_mul(c2.price_per_token, c2.quantity), 1, 8), 100)

\* C26: the X402 proof check is a stub that does not depend on the expected
\* fee: two InitializeListing invocations with the same non-empty payload
\* but different price and quantity (hence different fee amounts) both
\* succeed and store the same x402_payload_hash, and no invocation ever
\* fails with X402AmountMismatch.
C26_ProofStub ==
    /\ last.err # "X402AmountMismatch"
    /\ \A c1 \in InitCalls : ProofIgnoresFee(c1)
    /\ (InitOk /\ PaysByProof(last.args)) =>
           listing.x402_payload_hash = keccak_hash(last.args.x402_payload.val)

\* A listing stands created with an X402 payload and no fee, where the same
\* payload would have been accepted for a listing owing a fee of 8.
C26_Witness ==
    /\ InitOk
    /\ PaysByProof(last.args)
    /\ listing.fee_amount_paid = U64(0)
    /\ \E c2 \in FeeVariants(last.args) :
           LET r2 == initialize_listing(ZeroListing, data_len, tokens, c2)
           IN  /\ r2.err = "Ok"
               /\ r2.listing.fee_amount_paid = U64(8)
               /\ r2.listing.x402_payload_hash = listing.x402_payload_hash

(***************************************************************************)
(* Invariants the handlers keep together.                                  *)
(***************************************************************************)

\* C27: in every reachable state of an initialized listing, status and
\* filled are linked: AwaitingDeposit implies filled = 0; Active implies
\* filled < quantity (so remaining > 0 and the transfer a cancel from Active
\* asks for has a positive amount); Completed implies filled = quantity.
C27_StatusFilled ==
    (listing # ZeroListing) =>
        /\ (status(listing) = AwaitingDeposit => listing.filled = U64(0))
        /\ (status(listing) = Active =>
                Lt(listing.filled, listing.quantity) /\ ~IsZero(Unsold))
        /\ (status(listing) = Completed => listing.filled = listing.quantity)

\* A listing partly sold is Active with some of its quantity left.
C27_Witness ==
    /\ PurchaseOk
    /\ status(listing) = Active
    /\ Lt(U64(0), listing.filled)
    /\ Lt(listing.filled, listing.quantity)

\* A successful purchase on a listing without partial fills finds it
\* unfilled and fills it whole.
WholePurchaseStep ==
    (PurchaseOk' /\ WholeOnly) =>
        /\ listing.filled = U64(0)
        /\ last'.args.quantity = listing.quantity
        /\ listing'.filled = listing.quantity
        /\ ~IsZero(listing'.filled)

\* C28: a listing created with allow_partial = false has filled equal to 0
\* or to quantity in every reachable state, and at most one purchase ever
\* succeeds against it (a successful purchase finds filled = 0 and leaves
\* filled = quantity > 0, so none succeeds after it).
C28_WholeOnly ==
    /\ [](WholeOnly => listing.filled \in {U64(0), listing.quantity})
    /\ [][WholePurchaseStep]_vars

\* The one purchase of a listing without partial fills has succeeded.
C28_Witness ==
    /\ PurchaseOk
    /\ WholeOnly
    /\ last.args.quantity = U64(4)
    /\ listing.filled = listing.quantity
    /\ status(listing) = Completed

\* What the vault of Alice's listing holds.
VaultBalance == tokens[VaultTokenAccount].amount

\* The listing stored is Alice's listing ListingId, whose vault is
\* VaultTokenAccount.
VaultListed ==
    listing # ZeroListing /\ listing.vault_authority = VaultAuthority
        /\ listing.base_mint = BaseMint

\* C29: the vault starts empty and only the program moves tokens in or out
\* of it; its balance is 0 while the listing is AwaitingDeposit, equals
\* quantity - filled while it is Active, and is 0 once it is Completed or
\* Cancelled, so that the vault balance check of a purchase never fails.
C29_VaultBalance ==
    VaultListed =>
        /\ (status(listing) = AwaitingDeposit => VaultBalance = U64(0))
        /\ (status(listing) = Active => VaultBalance = Unsold)
        /\ (status(listing) \in {Completed, Cancelled} => VaultBalance = U64(0))

(***************************************************************************)
(* Truncation of the quote amount.                                         *)
(***************************************************************************)

\* amount <= floor(q * price_per_token / 10^base_decimals) of the stored
\* listing: amount * 10^d <= q * price.
AtMostQuoteOf(amount, q) ==
    Le(widening_mul(amount, TenTo(listing.base_decimals)),
       widening_mul(q, listing.price_per_token))

\* C30: each purchase's quote amount is truncated separately, so for any
\* sequence of successful purchases q_1..q_n the seller's total proceeds
\* sum_i floor(q_i * price / 10^decimals) are at most
\* floor((q_1 + ... + q_n) * price / 10^decimals) and can be strictly less:
\* splitting a purchase never costs buyers more and never pays the seller
\* more than one purchase of the same total.
C30_SplitTruncation == AtMostQuoteOf(proceeds, listing.filled)

\* Two purchases of 3 at price 5 and one decimal have paid 1 + 1, one
\* purchase of 6 would have paid 3.
C30_Witness ==
    /\ PurchaseOk
    /\ last.args.quantity = U64(3)
    /\ listing.filled = U64(6)
    /\ proceeds = U64(2)
    /\ IsQuoteOf(U64(3), listing.filled)
    /\ AtMostQuoteOf(wrapping_add(proceeds, U64(1)), listing.filled)

(***************************************************************************)
(* Listings whose whole quantity is worth less than one quote unit.        *)
(***************************************************************************)

\* The stored listing is created and quantity * price_per_token is below
\* 10^base_decimals: the quote amount of its full quantity truncates to 0.
Dust ==
    /\ listing # ZeroListing
    /\ Lt(widening_mul(listing.quantity, listing.price_per_token),
          u128_from(TenTo(listing.base_decimals)))

\* On such a listing no purchase succeeds, and the status becomes terminal
\* only by a cancel that the seller signed.
DustStep ==
    Dust =>
        /\ ~PurchaseOk'
        /\ listing'.filled = listing.filled
        /\ (status(listing') \in Terminal /\ status(listing) \notin Terminal) =>
               /\ CancelOk'
               /\ status(listing') = Cancelled
               /\ last'.args.seller = listing.seller
               /\ last'.args.is_signer

\* C31: if a listing's quantity * price_per_token < 10^base_decimals (the
\* full-quantity quote amount truncates to zero), no purchase of any
\* quantity ever succeeds against it, status Completed is unreachable, and
\* the only terminal state it can reach is Cancelled, by the seller's cancel.
C31_DustListing ==
    /\ [](Dust => (status(listing) # Completed /\ IsZero(listing.filled)))
    /\ [][DustStep]_vars

\* A listing of quantity 4 at price 1 with one decimal was funded, could not
\* be sold, and the seller's cancel has returned the deposit.
C31_Witness ==
    /\ Dust
    /\ CancelOk
    /\ last.args.seller = listing.seller
    /\ status(listing) = Cancelled
    /\ withdrawn = listing.quantity
    /\ tokens[VaultTokenAccount].amount = U64(0)

====
